---- MODULE Spec2Model ----
(***************************************************************************)
(* The execution planner and runtime of the workflow builder: the          *)
(* reference graph, the topological planner, the node executor and the     *)
(* run orchestrator (runRange) of the page component, over the zustand     *)
(* workflow store.                                                         *)
(***************************************************************************)
EXTENDS Integers, Sequences, FiniteSets, TLC

\* ------------------------------------------------------------------ bounds
MaxNodes == 3       \* node ids of a workflow
MaxRefs == 2        \* ref bindings per node in the enumerated planner inputs
MaxRuns == 2        \* runRange calls per behaviour
MaxCalls == 5       \* node invocations per run (caps loopCount = 0)
MaxImports == 1     \* importWorkflow calls per behaviour
MaxAdded == 2    \* nodes the store holds when addNode is still taken
MaxCount == 2       \* repeat.count, and loopCount, of an imported document

NodeIds == 1..MaxNodes
\* An id that names no node of the store: what a ref binding to a removed
\* node, or an imported order entry without a node, holds.
Ghost == MaxNodes + 1
RunIds == 1..MaxRuns
\* "no node" / "no controller": undefined or null where an id is expected.
None == 0 - 1

Undefined == "undefined"

\* ---------------------------------------------------------------- helpers
Range(s) == {s[i] : i \in DOMAIN s}

RECURSIVE SetToSeq(_)
SetToSeq(S) ==
  IF S = {} THEN <<>>
  ELSE LET m == CHOOSE x \in S : \A y \in S : x <= y
       IN <<m>> \o SetToSeq(S \ {m})

Perms(S) ==
  {f \in [1..Cardinality(S) -> S] : \A i, j \in DOMAIN f : i # j => f[i] # f[j]}

\* Array.prototype.indexOf: the first index (1-based here), 0 when absent.
IndexOf(s, x) ==
  IF x \in Range(s) THEN CHOOSE i \in DOMAIN s : s[i] = x /\ \A j \in 1..(i - 1) : s[j] # x
  ELSE 0

\* ------------------------------------------------------- reference graph
\* ParamValue: a literal, or a ref {nodeId, path} to another node's output.
RefValue(src) == [type |-> "ref", nodeId |-> src, path |-> "result"]
LiteralValue == [type |-> "literal", nodeId |-> Ghost, path |-> ""]

\* The ids a node's ref bindings name.
RefSources(node) ==
  {node.params[i].value.nodeId :
     i \in {j \in DOMAIN node.params : node.params[j].value.type = "ref"}}

referencesAnyNode(node, nodeIds) == RefSources(node) \cap nodeIds # {}

\* buildReferenceAdjacency with the edge of a node to itself left out.
buildReferenceAdjacencyNoSelfEdge(nodeIds, nodes) ==
  [s \in Range(nodeIds) |->
     {n \in Range(nodeIds) :
        n \in DOMAIN nodes /\ n # s /\ s \in RefSources(nodes[n])}]

\* adjacency.get(source) ?? {} for every source in the subset: the dependents
\* of source among the subset's nodes. A ref to an id outside the subset adds
\* no edge.
buildReferenceAdjacency(nodeIds, nodes) ==
  [s \in Range(nodeIds) |->
     {n \in Range(nodeIds) : n \in DOMAIN nodes /\ s \in RefSources(nodes[n])}]

\* queue.sort((a, b) => index(a) - index(b)): a stable insertion sort.
RECURSIVE InsertByIndex(_, _, _)
InsertByIndex(sorted, x, index) ==
  IF sorted = <<>> THEN <<x>>
  ELSE IF index[x] < index[Head(sorted)] THEN <<x>> \o sorted
  ELSE <<Head(sorted)>> \o InsertByIndex(Tail(sorted), x, index)

\* queue.sort with the comparison the other way round: largest index first.
RECURSIVE InsertByIndexDescending(_, _, _)
InsertByIndexDescending(sorted, x, index) ==
  IF sorted = <<>> THEN <<x>>
  ELSE IF index[x] > index[Head(sorted)] THEN <<x>> \o sorted
  ELSE <<Head(sorted)>> \o InsertByIndexDescending(Tail(sorted), x, index)

RECURSIVE SortByIndexDescending(_, _)
SortByIndexDescending(queue, index) ==
  IF queue = <<>> THEN <<>>
  ELSE InsertByIndexDescending(
         SortByIndexDescending(SubSeq(queue, 1, Len(queue) - 1), index),
         queue[Len(queue)], index)

\* queue.sort leaving the queue as it is.
SortByIndexNone(queue, index) ==
  queue

RECURSIVE SortByIndex(_, _)
SortByIndex(queue, index) ==
  IF queue = <<>> THEN <<>>
  ELSE InsertByIndex(SortByIndex(SubSeq(queue, 1, Len(queue) - 1), index),
                     queue[Len(queue)], index)

\* The while loop of buildDependencyExecutionOrder: shift the queue's head,
\* emit it, decrement its targets' indegree, push those that reach 0, sort.
RECURSIVE KahnLoop(_, _, _, _, _)
KahnLoop(queue, indegree, result, adjacency, index) ==
  IF queue = <<>> THEN result
  ELSE LET nodeId == Head(queue)
           targets == adjacency[nodeId]
           nextInDegree == [n \in DOMAIN indegree |->
                              IF n \in targets THEN indegree[n] - 1 ELSE indegree[n]]
           pushed == SetToSeq({t \in targets : nextInDegree[t] = 0})
       IN KahnLoop(SortByIndex(Tail(queue) \o pushed, index), nextInDegree,
                   Append(result, nodeId), adjacency, index)

KahnResult(orderedNodeIds, nodes) ==
  LET ids == Range(orderedNodeIds)
      \* new Map(entries): a later entry of the same id overwrites the earlier
      index == [n \in ids |->
                  CHOOSE i \in DOMAIN orderedNodeIds :
                    orderedNodeIds[i] = n
                    /\ \A j \in DOMAIN orderedNodeIds : orderedNodeIds[j] = n => j <= i]
      adjacency == buildReferenceAdjacency(orderedNodeIds, nodes)
      indegree == [n \in ids |-> Cardinality({s \in ids : n \in adjacency[s]})]
      queue == SortByIndex(SelectSeq(orderedNodeIds, LAMBDA n : indegree[n] = 0), index)
  IN KahnLoop(queue, indegree, <<>>, adjacency, index)

\* buildDependencyExecutionOrder returning the filtered display order where
\* it should return the sorted result.
buildDependencyExecutionOrderUnsorted(order, nodes) ==
  LET orderedNodeIds == SelectSeq(order, LAMBDA n : n \in DOMAIN nodes)
      result == KahnResult(orderedNodeIds, nodes)
  IN [orderedNodeIds |-> orderedNodeIds,
      hasCycle |-> Len(result) # Len(orderedNodeIds)]

\* buildDependencyExecutionOrder returning what the loop emitted, whether or
\* not it emitted every node.
buildDependencyExecutionOrderPartial(order, nodes) ==
  LET orderedNodeIds == SelectSeq(order, LAMBDA n : n \in DOMAIN nodes)
      result == KahnResult(orderedNodeIds, nodes)
  IN [orderedNodeIds |-> result,
      hasCycle |-> Len(result) # Len(orderedNodeIds)]

buildDependencyExecutionOrder(order, nodes) ==
  LET orderedNodeIds == SelectSeq(order, LAMBDA n : n \in DOMAIN nodes)
      result == KahnResult(orderedNodeIds, nodes)
  IN [orderedNodeIds |-> IF Len(result) = Len(orderedNodeIds) THEN result ELSE orderedNodeIds,
      hasCycle |-> Len(result) # Len(orderedNodeIds)]

\* The for loop of getReferencedDownstreamNodeIds over executionOrder from
\* position i: a node joins when it references the source or a node that
\* joined before it.
RECURSIVE DownstreamLoop(_, _, _, _, _, _)
DownstreamLoop(executionOrder, nodes, sourceNodeId, includedNodeIds, i, acc) ==
  IF i > Len(executionOrder) THEN acc.referencedNodeIds
  ELSE LET nodeId == executionOrder[i]
           skip == \/ nodeId \notin includedNodeIds
                   \/ nodeId = sourceNodeId
                   \/ nodeId \notin DOMAIN nodes
                   \/ ~referencesAnyNode(nodes[nodeId], acc.sourceIds)
       IN DownstreamLoop(executionOrder, nodes, sourceNodeId, includedNodeIds, i + 1,
            IF skip THEN acc
            ELSE [sourceIds |-> acc.sourceIds \cup {nodeId},
                  referencedNodeIds |-> Append(acc.referencedNodeIds, nodeId)])

\* getReferencedDownstreamNodeIds finding no dependent.
getReferencedDownstreamNodeIdsNone(executionOrder, nodes, sourceNodeId, includedNodeIds) ==
  <<>>

getReferencedDownstreamNodeIds(executionOrder, nodes, sourceNodeId, includedNodeIds) ==
  DownstreamLoop(executionOrder, nodes, sourceNodeId, includedNodeIds, 1,
                 [sourceIds |-> {sourceNodeId}, referencedNodeIds |-> <<>>])

repeatIntervalToMs(interval, unit) ==
  IF unit = "minutes" THEN interval * 60000
  ELSE IF unit = "seconds" THEN interval * 1000
  ELSE interval

\* node.repeat.count and loopCount are integers in the store (normalizeRepeat),
\* so Math.floor is the identity on them.
RepeatCountOf(node) == IF node.repeat.count > 1 THEN node.repeat.count ELSE 1
LoopCountOf(node) == IF node.repeat.loopCount > 0 THEN node.repeat.loopCount ELSE 0
RepeatDelayMsOf(node) ==
  repeatIntervalToMs(IF node.repeat.interval > 0 THEN node.repeat.interval ELSE 0,
                     node.repeat.unit)

\* PlannedCallCount: a number, or null for "infinite"; a map entry that was
\* never set reads undefined.
Num(k) == [kind |-> "number", n |-> k]
Infinite == [kind |-> "null", n |-> 0]
Unset == [kind |-> "undefined", n |-> 0]

\* addPlannedCallCount replacing the accumulated count instead of adding to it.
addPlannedCallCountOverwrite(callCounts, nodeId, count) ==
  IF callCounts[nodeId] = Infinite THEN callCounts
  ELSE [callCounts EXCEPT ![nodeId] = Num(count)]

addPlannedCallCount(callCounts, nodeId, count) ==
  IF callCounts[nodeId] = Infinite THEN callCounts
  ELSE IF callCounts[nodeId] = Unset THEN [callCounts EXCEPT ![nodeId] = Num(count)]
  ELSE [callCounts EXCEPT ![nodeId] = Num(@.n + count)]

\* setPlannedCallCountInfinite storing the number 0 instead of null.
setPlannedCallCountZero(callCounts, nodeId) ==
  [callCounts EXCEPT ![nodeId] = Num(0)]

setPlannedCallCountInfinite(callCounts, nodeId) ==
  [callCounts EXCEPT ![nodeId] = Infinite]

\* The loop over the downstream nodes counting each of them for the first
\* repeating node only.
RECURSIVE AddToAllUncounted(_, _, _)
AddToAllUncounted(callCounts, ids, count) ==
  IF ids = <<>> THEN callCounts
  ELSE AddToAllUncounted(
         IF callCounts[Head(ids)] = Unset
         THEN addPlannedCallCount(callCounts, Head(ids), count) ELSE callCounts,
         Tail(ids), count)

\* for (const id of ids) addPlannedCallCount(callCounts, id, count)
RECURSIVE AddToAll(_, _, _)
AddToAll(callCounts, ids, count) ==
  IF ids = <<>> THEN callCounts
  ELSE AddToAll(addPlannedCallCount(callCounts, Head(ids), count), Tail(ids), count)

\* for (const id of ids) setPlannedCallCountInfinite(callCounts, id)
RECURSIVE SetInfiniteAll(_, _)
SetInfiniteAll(callCounts, ids) ==
  IF ids = <<>> THEN callCounts
  ELSE SetInfiniteAll(setPlannedCallCountInfinite(callCounts, Head(ids)), Tail(ids))

\* One iteration of the for loop of calculatePlannedCallCounts, at position
\* i of the execution order: the position, the Map and the skipped set after
\* it, and whether it left the loop by break.
PlannedStep(executionOrder, nodes, includedNodeIds, i, callCounts, skippedNodeIds) ==
  LET nodeId == executionOrder[i]
      continue(counts, skipped) ==
        [i |-> i + 1, callCounts |-> counts, skippedNodeIds |-> skipped, broke |-> FALSE]
  IN
  IF nodeId \notin includedNodeIds \/ nodeId \in skippedNodeIds \/ nodeId \notin DOMAIN nodes
  THEN continue(callCounts, skippedNodeIds)
  ELSE IF ~nodes[nodeId].repeat.enabled
  THEN continue(addPlannedCallCount(callCounts, nodeId, 1), skippedNodeIds)
  ELSE
    LET downstreamNodeIds ==
          getReferencedDownstreamNodeIds(executionOrder, nodes, nodeId, includedNodeIds)
        repeatCount == RepeatCountOf(nodes[nodeId])
        loopCount == LoopCountOf(nodes[nodeId])
        totalCalls == repeatCount * loopCount
    IN IF loopCount = 0
       THEN \* break
            [i |-> i,
             callCounts |-> SetInfiniteAll(setPlannedCallCountInfinite(callCounts, nodeId),
                                           downstreamNodeIds),
             skippedNodeIds |-> skippedNodeIds, broke |-> TRUE]
       ELSE continue(AddToAll(addPlannedCallCount(callCounts, nodeId, totalCalls),
                              downstreamNodeIds, totalCalls),
                     skippedNodeIds \cup Range(downstreamNodeIds))

\* The for loop of calculatePlannedCallCounts from position i.
RECURSIVE PlannedLoop(_, _, _, _, _, _)
PlannedLoop(executionOrder, nodes, includedNodeIds, i, callCounts, skippedNodeIds) ==
  IF i > Len(executionOrder) THEN callCounts
  ELSE
    LET after == PlannedStep(executionOrder, nodes, includedNodeIds, i, callCounts,
                             skippedNodeIds)
    IN IF after.broke THEN after.callCounts
       ELSE PlannedLoop(executionOrder, nodes, includedNodeIds, after.i, after.callCounts,
                        after.skippedNodeIds)

\* The Map is modelled as a function over every id an order can hold, with
\* Unset for an absent key.
calculatePlannedCallCounts(executionOrder, nodes, includedNodeIds) ==
  PlannedLoop(executionOrder, nodes, includedNodeIds, 1,
              [n \in NodeIds \cup {Ghost} |-> Unset], {})

\* ------------------------------------------------------------- the store
DEFAULT_NODE_REPEAT ==
  [enabled |-> FALSE, count |-> 2, interval |-> 1, unit |-> "seconds", loopCount |-> 1]

\* A JavaScript number as normalizeRepeat meets it: a finite value, held in
\* halves so that Math.floor has a fraction to cut off, or NaN, Infinity or
\* -Infinity.
Halves(h) == [kind |-> "finite", halves |-> h]
Whole(n) == Halves(2 * n)
NaN == [kind |-> "NaN", halves |-> 0]
PlusInfinity == [kind |-> "Infinity", halves |-> 0]
MinusInfinity == [kind |-> "-Infinity", halves |-> 0]

\* Number.isFinite and Math.floor
NumberIsFinite(x) == x.kind = "finite"
MathFloor(x) == x.halves \div 2

\* A repeat record of the store or of a valid document, whose numbers are
\* integers, as the argument of normalizeRepeat.
AsNumbers(repeat) ==
  [f \in DOMAIN repeat |->
     IF f \in {"count", "interval", "loopCount"} THEN Whole(repeat[f]) ELSE repeat[f]]

\* repeat?.field ?? fallback
FieldOr(repeat, field, fallback) ==
  IF field \in DOMAIN repeat THEN repeat[field] ELSE fallback

\* Math.min(Math.max(x, lo), hi) with the upper bound left out.
ClampBelow(x, lo, hi) == IF x < lo THEN lo ELSE x

Clamp(x, lo, hi) == IF x < lo THEN lo ELSE IF x > hi THEN hi ELSE x

\* normalizeRepeat(repeat): repeat is a record of some of the five fields
\* (none of them for a document node without repeat).
normalizeRepeat(repeat) ==
  LET countCandidate == FieldOr(repeat, "count", Whole(DEFAULT_NODE_REPEAT.count))
      intervalCandidate == FieldOr(repeat, "interval", Whole(DEFAULT_NODE_REPEAT.interval))
      unitCandidate == FieldOr(repeat, "unit", DEFAULT_NODE_REPEAT.unit)
      count == IF NumberIsFinite(countCandidate) THEN MathFloor(countCandidate)
               ELSE DEFAULT_NODE_REPEAT.count
      interval == IF NumberIsFinite(intervalCandidate) THEN MathFloor(intervalCandidate)
                  ELSE DEFAULT_NODE_REPEAT.interval
      loopCountCandidate ==
        FieldOr(repeat, "loopCount", Whole(DEFAULT_NODE_REPEAT.loopCount))
      loopCount == IF NumberIsFinite(loopCountCandidate) THEN MathFloor(loopCountCandidate)
                   ELSE DEFAULT_NODE_REPEAT.loopCount
  IN [enabled |-> FieldOr(repeat, "enabled", DEFAULT_NODE_REPEAT.enabled),
      count |-> Clamp(count, 1, 1000),
      interval |-> Clamp(interval, 0, 86400000),
      unit |-> IF unitCandidate \in {"milliseconds", "seconds", "minutes"}
               THEN unitCandidate ELSE DEFAULT_NODE_REPEAT.unit,
      loopCount |-> Clamp(loopCount, 0, 100000)]

NameOf(id) == [label |-> id]
NoName == [label |-> None]

\* The names of the parameter fields a method declares, in order.
ParamNames == <<"value", "owner", "mint", "limit">>

DEFAULT_NODE_POSITION == [x |-> 80, y |-> 80]

\* The place on the canvas of the node at a 1-based position of the order.
GridPosition(position) ==
  LET zeroBasedPosition == IF position - 1 > 0 THEN position - 1 ELSE 0
      column == zeroBasedPosition % 4
      row == zeroBasedPosition \div 4
  IN [x |-> DEFAULT_NODE_POSITION.x + column * 280,
      y |-> DEFAULT_NODE_POSITION.y + row * 200]

\* A coordinate of a document as Number() reads it: a finite number, or NaN
\* for a coordinate (or a whole position) that is absent.
Finite(v) == [finite |-> TRUE, v |-> v]
NotANumber == [finite |-> FALSE, v |-> 0]
NoPosition == [x |-> NotANumber, y |-> NotANumber]

\* normalizeNodePosition(position, fallbackIndex)
normalizeNodePosition(position, fallbackIndex) ==
  LET xCandidate == position.x
      yCandidate == position.y
  IN [x |-> IF xCandidate.finite THEN xCandidate.v ELSE GridPosition(fallbackIndex).x,
      y |-> IF yCandidate.finite THEN yCandidate.v ELSE GridPosition(fallbackIndex).y]

\* A node of an export document: its bindings are refs to the ids of refs.
ExportNode(id, refs, repeat, method) ==
  [id |-> id, name |-> NameOf(id), method |-> method,
   schemaMode |-> "known",
   params |-> [i \in 1..Cardinality(refs) |->
                 [name |-> ParamNames[i], value |-> RefValue(SetToSeq(refs)[i])]],
   rawParamsJson |-> "[]",
   repeat |-> repeat, position |-> NoPosition, output |-> Undefined]

\* The body of importWorkflow's loop for one document node.
ImportedNode(node, fallbackIndex) ==
  [id |-> node.id, name |-> node.name, method |-> node.method,
   schemaMode |-> node.schemaMode, params |-> node.params,
   rawParamsJson |-> node.rawParamsJson,
   repeat |-> normalizeRepeat(AsNumbers(node.repeat)),
   position |-> normalizeNodePosition(node.position, fallbackIndex),
   status |-> "idle", output |-> node.output, error |-> Undefined,
   outputOpen |-> node.output # Undefined]

\* orderIndexById.get(id) ?? 1: the Map keeps the last index of a repeated id.
FallbackIndex(docOrder, id) ==
  IF id \in Range(docOrder)
  THEN CHOOSE i \in DOMAIN docOrder :
         docOrder[i] = id /\ \A j \in DOMAIN docOrder : docOrder[j] = id => j <= i
  ELSE 1

RECURSIVE ImportNodes(_, _, _)
\* for (const node of workflow.nodes) nodes[node.id] = {...}
ImportNodes(docNodes, docOrder, acc) ==
  IF docNodes = <<>> THEN acc
  ELSE LET node == Head(docNodes)
           rest == [k \in DOMAIN acc \ {node.id} |-> acc[k]]
       IN ImportNodes(Tail(docNodes), docOrder,
            [k \in DOMAIN acc \cup {node.id} |->
               IF k = node.id THEN ImportedNode(node, FallbackIndex(docOrder, node.id))
               ELSE rest[k]])

EmptyMap == [k \in {} |-> Undefined]

\* One node of the document exportWorkflow builds; an output that is not
\* exported reads undefined.
ExportedNode(node, includeOutputs) ==
  [id |-> node.id, name |-> node.name, method |-> node.method,
   schemaMode |-> node.schemaMode, params |-> node.params,
   rawParamsJson |-> node.rawParamsJson, repeat |-> node.repeat,
   position |-> [x |-> Finite(node.position.x), y |-> Finite(node.position.y)],
   output |-> IF includeOutputs THEN node.output ELSE Undefined]

\* exportWorkflow(includeOutputs) on a store: the order as it is, and the
\* nodes the order names, in that order.
exportWorkflow(storeOrder, storeNodes, storeSelectedNodeId, includeOutputs) ==
  LET present == SelectSeq(storeOrder, LAMBDA id : id \in DOMAIN storeNodes) IN
  [order |-> storeOrder,
   nodes |-> [i \in DOMAIN present |-> ExportedNode(storeNodes[present[i]], includeOutputs)],
   selectedNodeId |-> storeSelectedNodeId]

\* The store importWorkflow(workflow) sets.
importWorkflow(workflow) ==
  [order |-> workflow.order,
   nodes |-> ImportNodes(workflow.nodes, workflow.order, EmptyMap),
   selectedNodeId |-> workflow.selectedNodeId]

setNodeStatus(nodes, nodeId, status, error) ==
  IF nodeId \notin DOMAIN nodes THEN nodes
  ELSE [nodes EXCEPT ![nodeId].status = status, ![nodeId].error = error]

setNodeOutput(nodes, nodeId, output) ==
  IF nodeId \notin DOMAIN nodes THEN nodes
  ELSE [nodes EXCEPT ![nodeId].output = output]

\* ------------------------------------------------------- planner inputs
\* Every way to give each node of S at most MaxRefs ref bindings to ids of
\* S or to an id that names no node.
RefSets(S) == {rs \in SUBSET (S \cup {Ghost}) : Cardinality(rs) <= MaxRefs}

PlanNodes(S) ==
  {[n \in S |-> ImportedNode(ExportNode(n, refs[n], DEFAULT_NODE_REPEAT, "getBalance"), n)] :
     refs \in [S -> RefSets(S)]}

\* A display order: the nodes of S, each once, in any order, with or without
\* an entry that names no node.
PlanOrders(S) == Perms(S) \cup Perms(S \cup {Ghost})

\* ------------------------------------------------------- node executor
\* What the model keeps of a JSON value: a successful response body ("data",
\* which has the path "result"), an error body ("errorBody", which has the
\* path "error"), a literal, null, or undefined.
HasPath(output, path) ==
  \/ output = "data" /\ path = "result"
  \/ output = "errorBody" /\ path = "error"

\* getByPath(obj, path): obj itself for the empty path, the value at the
\* path when there is one, undefined otherwise.
getByPath(obj, path) ==
  IF path = "" THEN obj
  ELSE IF HasPath(obj, path) THEN "data"
  ELSE Undefined

Resolved(value) == [threw |-> FALSE, value |-> value, message |-> ""]
Threw(message) == [threw |-> TRUE, value |-> Undefined, message |-> message]

\* resolveParamValue passing undefined on instead of throwing.
resolveParamValueLenient(paramValue, outputsByNodeId) ==
  Resolved(Undefined)

resolveParamValue(paramValue, outputsByNodeId) ==
  IF paramValue.type = "literal" THEN Resolved("literal")
  ELSE LET sourceOutput == outputsByNodeId[paramValue.nodeId] IN
       IF sourceOutput = Undefined THEN Threw("Reference node has no output")
       ELSE IF getByPath(sourceOutput, paramValue.path) = Undefined
            THEN Threw("Reference path not found")
            ELSE Resolved(getByPath(sourceOutput, paramValue.path))

\* getNodeParams / getNodeHttpParams for a method whose declared fields are
\* the node's bindings: each binding is resolved in turn, the first throw
\* ends the call.
RECURSIVE getNodeParams(_, _, _)
getNodeParams(node, outputsByNodeId, i) ==
  IF i > Len(node.params) THEN Resolved("params")
  ELSE LET r == resolveParamValue(node.params[i].value, outputsByNodeId)
       IN IF r.threw THEN r ELSE getNodeParams(node, outputsByNodeId, i + 1)

getCustomNodeOutput(node, outputsByNodeId) ==
  LET found == {i \in DOMAIN node.params : node.params[i].name = "value"} IN
  IF found = {} THEN Resolved("null")
  ELSE resolveParamValue(
         node.params[CHOOSE i \in found : \A j \in found : i <= j].value, outputsByNodeId)

\* getMethodEntry(node.method)?.transport ?? "jsonrpc". The registry is
\* generated data; "customValue" stands for a method whose entry has the
\* transport custom, every other method for a jsonrpc one.
TransportOf(method) == IF method = "customValue" THEN "custom" ELSE "jsonrpc"

\* methodRegistry.methods: the entries of the generated registry the model
\* works with. "getTokenAccountsByOwner" stands for a method with a table
\* schema (a required field and an optional one), the others for methods
\* without one.
NoSchema == [kind |-> "none", fields |-> <<>>]
Table(fields) == [kind |-> "table", fields |-> fields]
Field(name, required) == [name |-> name, required |-> required]
methodRegistry ==
  <<[method |-> "getBalance", params |-> NoSchema],
    [method |-> "customValue", params |-> NoSchema],
    [method |-> "getTokenAccountsByOwner",
     params |-> Table(<<Field(ParamNames[2], TRUE), Field(ParamNames[3], FALSE)>>)]>>

NoEntry == [method |-> "", params |-> NoSchema]

\* getMethodEntry(method): the first entry of that method, or undefined.
getMethodEntry(method) ==
  LET found == {i \in DOMAIN methodRegistry : methodRegistry[i].method = method} IN
  IF found = {} THEN NoEntry
  ELSE methodRegistry[CHOOSE i \in found : \A j \in found : i <= j]

FieldNames(entry) == {entry.params.fields[i].name : i \in DOMAIN entry.params.fields}
RequiredFieldNames(entry) ==
  {entry.params.fields[i].name :
     i \in {j \in DOMAIN entry.params.fields : entry.params.fields[j].required}}

\* ------------------------------------------------ the chat route (server)
\* What the assistant's JSON holds under proposedNodes. An entry of the array
\* is an object or not; an object's method is a string or not, and a string
\* may be blank or padded with spaces; paramsByField is given by the names
\* of its own properties (supplied) and those whose value is a ref to the
\* first proposed node (refs).
StringValue(text, padded) == [isString |-> TRUE, text |-> text, padded |-> padded]
NumberValue == [isString |-> FALSE, text |-> "", padded |-> FALSE]
RawObject(method, supplied, refs) ==
  [isObject |-> TRUE, method |-> method, supplied |-> supplied, refs |-> refs]
RawScalar == [isObject |-> FALSE, method |-> NumberValue, supplied |-> {}, refs |-> {}]

\* toNonEmptyString(value): null ("") unless value is a string that is not
\* blank; then the string without the spaces around it.
toNonEmptyString(value) ==
  IF ~value.isString THEN "" ELSE value.text

\* normalizeProposalInput(raw): raw is null, a scalar, one object, or an array.
NullInput == [shape |-> "null", entries |-> <<>>]
ScalarInput == [shape |-> "scalar", entries |-> <<>>]
ObjectInput(entry) == [shape |-> "object", entries |-> <<entry>>]
ArrayInput(entries) == [shape |-> "array", entries |-> entries]
normalizeProposalInput(raw) ==
  IF raw.shape = "array" THEN SelectSeq(raw.entries, LAMBDA entry : entry.isObject)
  ELSE IF raw.shape = "object" THEN raw.entries
  ELSE <<>>

\* availabilityError of a response: absent, or one of the three messages.
NoAvailabilityError == [kind |-> "none", index |-> 0, method |-> "", fields |-> {}]
MissingMethodError(index) ==
  [kind |-> "missing a valid method", index |-> index, method |-> "", fields |-> {}]
UnavailableError(method) ==
  [kind |-> "not available in this workflow registry", index |-> 0, method |-> method,
   fields |-> {}]
MissingRequiredError(method, missingRequired) ==
  [kind |-> "missing required argument(s)", index |-> 0, method |-> method,
   fields |-> missingRequired]

Rejected(availabilityError) ==
  [proposals |-> <<>>, canAddNodes |-> FALSE, availabilityError |-> availabilityError]

\* A ChatNodeProposal: a table method's proposal has paramsByField (the
\* supplied fields of the schema), another method's has rawParams.
ChatNodeProposal(method, supplied, refs) ==
  [method |-> method, supplied |-> supplied, refs |-> refs]

\* The loop of validateProposals leaving out a proposal that fails.
RECURSIVE validateFromSkipping(_, _, _)
validateFromSkipping(rawProposals, index, proposals) ==
  IF index > Len(rawProposals)
  THEN [proposals |-> proposals, canAddNodes |-> Len(proposals) > 0,
        availabilityError |-> NoAvailabilityError]
  ELSE
    LET rawProposal == rawProposals[index]
        method == toNonEmptyString(rawProposal.method)
        entry == getMethodEntry(method)
        paramsByField == rawProposal.supplied \cap FieldNames(entry)
    IN IF method = "" \/ entry = NoEntry \/ RequiredFieldNames(entry) \ paramsByField # {}
       THEN validateFromSkipping(rawProposals, index + 1, proposals)
       ELSE validateFromSkipping(rawProposals, index + 1,
                                 Append(proposals,
                                        ChatNodeProposal(method, paramsByField,
                                                         rawProposal.refs \cap paramsByField)))

\* The loop of validateProposals from index (1-based) on.
RECURSIVE validateFrom(_, _, _)
validateFrom(rawProposals, index, proposals) ==
  IF index > Len(rawProposals)
  THEN [proposals |-> proposals, canAddNodes |-> Len(proposals) > 0,
        availabilityError |-> NoAvailabilityError]
  ELSE
    LET rawProposal == rawProposals[index]
        method == toNonEmptyString(rawProposal.method)
        entry == getMethodEntry(method)
    IN IF method = "" THEN Rejected(MissingMethodError(index))
       ELSE IF entry = NoEntry THEN Rejected(UnavailableError(method))
       ELSE IF entry.params.kind = "table"
       THEN LET paramsByField == rawProposal.supplied \cap FieldNames(entry)
                missingRequired == RequiredFieldNames(entry) \ paramsByField
            IN IF missingRequired # {}
               THEN Rejected(MissingRequiredError(method, missingRequired))
               ELSE validateFrom(rawProposals, index + 1,
                                 Append(proposals,
                                        ChatNodeProposal(method, paramsByField,
                                                         rawProposal.refs \cap paramsByField)))
       ELSE validateFrom(rawProposals, index + 1,
                         Append(proposals, ChatNodeProposal(method, {}, {})))

validateProposals(raw) ==
  LET rawProposals == normalizeProposalInput(raw) IN
  IF Len(rawProposals) = 0 THEN Rejected(NoAvailabilityError)
  ELSE validateFrom(rawProposals, 1, <<>>)

\* RunRangeResult
Success ==
  [success |-> TRUE, canceled |-> FALSE, failedNodeId |-> None, failedNodeName |-> NoName,
   errorMessage |-> ""]
NodeCanceled(node) ==
  [success |-> FALSE, canceled |-> TRUE, failedNodeId |-> node.id,
   failedNodeName |-> node.name, errorMessage |-> "Execution stopped by user."]
NodeFailed(node, message) ==
  [success |-> FALSE, canceled |-> FALSE, failedNodeId |-> node.id,
   failedNodeName |-> node.name, errorMessage |-> message]
RunCanceled ==
  [success |-> FALSE, canceled |-> TRUE, failedNodeId |-> None, failedNodeName |-> NoName,
   errorMessage |-> "Execution stopped by user."]
RunRejected(message) ==
  [success |-> FALSE, canceled |-> FALSE, failedNodeId |-> None, failedNodeName |-> NoName,
   errorMessage |-> message]
NoResult ==
  [success |-> FALSE, canceled |-> FALSE, failedNodeId |-> None, failedNodeName |-> NoName,
   errorMessage |-> "pending"]

CircularMessage == "Circular reference detected. Remove cyclic references before running."
InvalidStartMessage == "Invalid start index for execution."

Message(text) == [text |-> text, node |-> NoName, detail |-> ""]
StoppedAt(result) ==
  [text |-> "Execution stopped at", node |-> result.failedNodeName,
   detail |-> result.errorMessage]

\* -------------------------------------------------- the run orchestrator
\* One runRange call: its locals, and where it is suspended. pc is "idle"
\* (not called yet), "fetch" (awaiting the transport inside executeSingleNode),
\* "sleep" (awaiting sleepWithSignal), "done" (returned) or "capped" (the
\* model's bound on invocations stopped it); the other values of pc are
\* places the synchronous code passes through between two awaits.
AllIds == NodeIds \cup {Ghost}

IdleRun(r) ==
  [id |-> r, pc |-> "idle", startIndex |-> 0, endIndexExclusive |-> 0,
   state |-> EmptyMap, orderSnapshot |-> <<>>, executionOrder |-> <<>>,
   includedNodeIds |-> {}, outputsByNodeId |-> [n \in AllIds |-> Undefined],
   skippedNodeIds |-> {}, idx |-> 1, site |-> "none",
   current |-> [id |-> None, name |-> NoName],
   downstreamNodeIds |-> <<>>, dIdx |-> 1, repeatCount |-> 0, loopCount |-> 0,
   repeatDelayMs |-> 0, cycle |-> 0, iteration |-> 0, globalIteration |-> 0,
   ret |-> NoResult, result |-> NoResult,
   log |-> <<>>,          \* history: the node ids invoked, in order
   waits |-> 0,           \* history: the waits begun in the current repeat loop
   mutated |-> FALSE]     \* history: the store was replaced while it ran

\* The finally block of runRange, then the return of result.
Finish(M, result) ==
  [M EXCEPT !.run.pc = "done", !.run.result = result, !.run.ret = NoResult,
            !.ref = IF M.ref = M.run.id THEN None ELSE M.ref,
            !.exec = FALSE]

Returned(M, ret) == [M EXCEPT !.run.pc = "returned", !.run.ret = ret]

\* The catch block marking the node as failed but reporting success.
CaughtButReportsSuccess(M, message) ==
  Returned([M EXCEPT !.nodes = setNodeStatus(@, M.run.current.id, "error", message)],
           Success)

\* The catch block of executeSingleNode for an error that is no AbortError.
Caught(M, message) ==
  Returned([M EXCEPT !.nodes = setNodeStatus(@, M.run.current.id, "error", message)],
           NodeFailed(M.run.current, message))

\* The catch block treating an AbortError like any other error.
CaughtAbortAsError(M) ==
  Returned([M EXCEPT !.nodes = setNodeStatus(@, M.run.current.id, "error",
                                             "The operation was aborted.")],
           NodeFailed(M.run.current, "The operation was aborted."))

\* The catch block swallowing an AbortError: the invocation counts as done.
CaughtAbortAsSuccess(M) ==
  Returned([M EXCEPT !.nodes = setNodeStatus(@, M.run.current.id, "idle", Undefined)],
           Success)

\* The catch block of executeSingleNode for an AbortError.
CaughtAbort(M) ==
  Returned([M EXCEPT !.nodes = setNodeStatus(@, M.run.current.id, "idle", Undefined)],
           NodeCanceled(M.run.current))

\* executeSingleNode from its first line to its first await or its return.
ExecBegin(M, nodeId, site) ==
  IF nodeId \notin DOMAIN M.nodes THEN Returned([M EXCEPT !.run.site = site], Success)
  ELSE
    LET node == M.nodes[nodeId] IN
    IF M.aborted THEN Returned([M EXCEPT !.run.site = site], NodeCanceled(node))
    ELSE IF Len(M.run.log) >= MaxCalls THEN [M EXCEPT !.run.pc = "capped"]
    ELSE
      LET M1 == [M EXCEPT
                   !.counts = [k \in DOMAIN @ \cup {node.id} |->
                                 IF k = node.id
                                 THEN (IF k \in DOMAIN @ THEN @[k] ELSE 0) + 1
                                 ELSE @[k]],
                   !.nodes = setNodeStatus(@, node.id, "running", Undefined),
                   !.run.log = Append(@, node.id),
                   !.run.site = site,
                   !.run.current = [id |-> node.id, name |-> node.name]]
      IN IF TransportOf(node.method) = "custom"
         THEN LET out == getCustomNodeOutput(node, M.run.outputsByNodeId) IN
              IF out.threw THEN Caught(M1, out.message)
              ELSE Returned(
                     [M1 EXCEPT
                        !.nodes = setNodeStatus(setNodeOutput(@, node.id, out.value),
                                                node.id, "success", Undefined),
                        !.run.outputsByNodeId[node.id] = out.value],
                     Success)
         ELSE LET params == getNodeParams(node, M.run.outputsByNodeId, 1) IN
              IF params.threw THEN Caught(M1, params.message)
              ELSE [M1 EXCEPT !.run.pc = "fetch"]

\* executeSingleNode after the transport answered with a 2xx body without an
\* error field.
ExecResponseOk(M) ==
  LET id == M.run.current.id IN
  Returned([M EXCEPT
              !.nodes = setNodeStatus(setNodeOutput(@, id, "data"), id, "success", Undefined),
              !.run.outputsByNodeId[id] = "data"],
           Success)

\* The error branches recording the body in the run's outputs map as well.
ExecResponseErrorUpdatesMap(M) ==
  LET id == M.run.current.id IN
  Returned([M EXCEPT
              !.nodes = setNodeStatus(setNodeOutput(@, id, "errorBody"), id, "error",
                                      "rpc error"),
              !.run.outputsByNodeId[id] = "errorBody"],
           NodeFailed(M.run.current, "rpc error"))

\* ... with a non-2xx status, or with a body that carries an error field.
ExecResponseError(M) ==
  LET id == M.run.current.id IN
  Returned([M EXCEPT
              !.nodes = setNodeStatus(setNodeOutput(@, id, "errorBody"), id, "error",
                                      "rpc error")],
           NodeFailed(M.run.current, "rpc error"))

\* sleepWithSignal not looking at the signal before it arms its timer.
sleepWithSignalUnchecked(durationMs, signalAborted) == "pending"

\* sleepWithSignal(durationMs, signal) up to the return of its promise:
\* rejected at once when the signal has fired, pending on its timer and its
\* abort listener otherwise.
sleepWithSignal(durationMs, signalAborted) ==
  IF signalAborted THEN "rejected" ELSE "pending"

\* await sleepWithSignal(repeatDelayMs, signal) in runRange: the rejection
\* is an AbortError, which the catch block of runRange turns into the
\* canceled result.
AwaitSleep(M) ==
  IF sleepWithSignal(M.run.repeatDelayMs, M.aborted) = "rejected"
  THEN Finish(M, RunCanceled)
  ELSE [M EXCEPT !.run.pc = "sleep", !.run.waits = @ + 1]

\* The condition skipping the wait before the first iteration of every cycle.
delaysIterationWithinCycle(run) == run.iteration > 0 /\ run.repeatDelayMs > 0

\* if (globalIteration > 0 && repeatDelayMs > 0)
delaysIteration(run) == run.globalIteration > 0 /\ run.repeatDelayMs > 0

\* The loop after a repeating node's cycles leaving its dependents to the
\* main loop.
markSkippedNone(skippedNodeIds, downstreamNodeIds) == skippedNodeIds

\* for (const id of downstreamNodeIds) skippedNodeIds.add(id)
markSkipped(skippedNodeIds, downstreamNodeIds) ==
  skippedNodeIds \cup Range(downstreamNodeIds)

\* The synchronous code of runRange between two awaits, from the place
\* M.run.pc names to the next await or the return.
RECURSIVE Drive(_)
Drive(M) ==
  LET run == M.run IN
  CASE run.pc = "loopHead" ->
         IF run.idx > Len(run.executionOrder) THEN Finish(M, Success)
         ELSE IF M.aborted THEN Finish(M, RunCanceled)
         ELSE LET nodeId == run.executionOrder[run.idx] IN
              IF nodeId \in run.skippedNodeIds \/ nodeId \notin DOMAIN M.nodes
              THEN Drive([M EXCEPT !.run.idx = @ + 1])
              ELSE IF ~M.nodes[nodeId].repeat.enabled
              THEN Drive(ExecBegin(M, nodeId, "single"))
              ELSE Drive([M EXCEPT
                     !.run.downstreamNodeIds =
                        getReferencedDownstreamNodeIds(run.executionOrder, M.nodes, nodeId,
                                                       run.includedNodeIds),
                     !.run.repeatCount = RepeatCountOf(M.nodes[nodeId]),
                     !.run.loopCount = LoopCountOf(M.nodes[nodeId]),
                     !.run.repeatDelayMs = RepeatDelayMsOf(M.nodes[nodeId]),
                     !.run.globalIteration = 0,
                     !.run.waits = 0,
                     !.run.cycle = 0,
                     !.run.pc = "cycleHead"])
    [] run.pc = "cycleHead" ->
         IF run.loopCount = 0 \/ run.cycle < run.loopCount
         THEN Drive([M EXCEPT !.run.iteration = 0, !.run.pc = "iterHead"])
         ELSE Drive([M EXCEPT
                !.run.skippedNodeIds = markSkipped(@, run.downstreamNodeIds),
                !.run.idx = @ + 1,
                !.run.pc = "loopHead"])
    [] run.pc = "iterHead" ->
         IF run.iteration >= run.repeatCount
         THEN Drive([M EXCEPT !.run.cycle = @ + 1, !.run.pc = "cycleHead"])
         ELSE IF delaysIteration(run)
         THEN AwaitSleep(M)
         ELSE Drive(ExecBegin(M, run.executionOrder[run.idx], "repeat"))
    [] run.pc = "downstream" ->
         IF run.dIdx > Len(run.downstreamNodeIds)
         THEN Drive([M EXCEPT !.run.globalIteration = @ + 1, !.run.iteration = @ + 1,
                              !.run.pc = "iterHead"])
         ELSE Drive(ExecBegin(M, run.downstreamNodeIds[run.dIdx], "downstream"))
    [] run.pc = "returned" ->
         IF ~run.ret.success
         THEN Finish([M EXCEPT !.msg = IF run.ret.canceled
                                       THEN Message("Execution stopped.")
                                       ELSE StoppedAt(run.ret)],
                     run.ret)
         ELSE IF run.site = "single"
         THEN Drive([M EXCEPT !.run.ret = NoResult, !.run.idx = @ + 1, !.run.pc = "loopHead"])
         ELSE IF run.site = "repeat"
         THEN Drive([M EXCEPT !.run.ret = NoResult, !.run.dIdx = 1, !.run.pc = "downstream"])
         ELSE Drive([M EXCEPT !.run.ret = NoResult, !.run.dIdx = @ + 1,
                              !.run.pc = "downstream"])
    [] OTHER -> M

Min(a, b) == IF a < b THEN a ELSE b

\* runRange from the planning of an accepted call (the call counts, the
\* reset of the counters) to its first await or its return.
runRangeAccepted(M0, startIndex, boundedEnd, storeOrder, storeNodes, dependencyPlanOfRun) ==
  LET includedNodeIds == Range(SubSeq(storeOrder, startIndex + 1, boundedEnd))
      executionOrder == SelectSeq(dependencyPlanOfRun.orderedNodeIds,
                                  LAMBDA n : n \in includedNodeIds)
      plannedCallCounts ==
        calculatePlannedCallCounts(executionOrder, storeNodes, includedNodeIds)
  IN Drive([M0 EXCEPT
       \* plannedCallCounts.get(nodeId) ?? 0: undefined and null both give 0
       !.targets = [n \in Range(storeOrder) |->
                      IF plannedCallCounts[n] \in {Unset, Infinite} THEN Num(0)
                      ELSE plannedCallCounts[n]],
       !.counts = [n \in Range(storeOrder) |-> 0],
       !.msg = Message(""),
       !.exec = TRUE,
       !.run.includedNodeIds = includedNodeIds,
       !.run.executionOrder = executionOrder,
       !.run.outputsByNodeId =
          [n \in AllIds |->
             IF n \in Range(storeOrder) /\ n \in DOMAIN storeNodes
             THEN storeNodes[n].output ELSE Undefined],
       !.run.idx = 1,
       !.run.pc = "loopHead"])

\* The controller of a new call, stored in the ref before anything else.
runRangeStart(M, startIndex, endIndexExclusive, storeOrder, storeNodes) ==
  [M EXCEPT !.ref = M.run.id,
            !.run.startIndex = startIndex,
            !.run.endIndexExclusive = endIndexExclusive,
            !.run.state = storeNodes,
            !.run.orderSnapshot = storeOrder]

\* runRange looking for a cycle among the nodes of the requested range only.
runRangeBeginCycleInRange(M, startIndex, endIndexExclusive, storeOrder, storeNodes) ==
  LET boundedEnd == Min(endIndexExclusive, Len(storeOrder))
      M0 == runRangeStart(M, startIndex, endIndexExclusive, storeOrder, storeNodes)
  IN
  IF startIndex < 0 \/ startIndex > boundedEnd
  THEN [M0 EXCEPT !.run.pc = "done", !.run.result = RunRejected(InvalidStartMessage)]
  ELSE
    IF buildDependencyExecutionOrder(SubSeq(storeOrder, startIndex + 1, boundedEnd),
                                     storeNodes).hasCycle
    THEN [M0 EXCEPT !.msg = Message(CircularMessage),
                    !.run.pc = "done", !.run.result = RunRejected(CircularMessage)]
    ELSE runRangeAccepted(M0, startIndex, boundedEnd, storeOrder, storeNodes,
                          buildDependencyExecutionOrder(storeOrder, storeNodes))

\* runRange rejecting a negative start index only.
runRangeBeginNegativeOnly(M, startIndex, endIndexExclusive, storeOrder, storeNodes) ==
  LET boundedEnd == Min(endIndexExclusive, Len(storeOrder))
      M0 == runRangeStart(M, startIndex, endIndexExclusive, storeOrder, storeNodes)
  IN
  IF startIndex < 0
  THEN [M0 EXCEPT !.run.pc = "done", !.run.result = RunRejected(InvalidStartMessage)]
  ELSE
    LET dependencyPlanOfRun == buildDependencyExecutionOrder(storeOrder, storeNodes) IN
    IF dependencyPlanOfRun.hasCycle
    THEN [M0 EXCEPT !.msg = Message(CircularMessage),
                    !.run.pc = "done", !.run.result = RunRejected(CircularMessage)]
    ELSE runRangeAccepted(M0, startIndex, boundedEnd, storeOrder, storeNodes,
                          dependencyPlanOfRun)

\* runRange resetting the counters, the targets and the flag before it
\* looks at the start index and at the plan.
runRangeBeginResetsFirst(M, startIndex, endIndexExclusive, storeOrder, storeNodes) ==
  LET boundedEnd == Min(endIndexExclusive, Len(storeOrder))
      M0 == [runRangeStart(M, startIndex, endIndexExclusive, storeOrder, storeNodes) EXCEPT
               !.targets = [n \in Range(storeOrder) |-> Num(0)],
               !.counts = [n \in Range(storeOrder) |-> 0]]
  IN
  IF startIndex < 0 \/ startIndex > boundedEnd
  THEN [M0 EXCEPT !.run.pc = "done", !.run.result = RunRejected(InvalidStartMessage)]
  ELSE
    LET dependencyPlanOfRun == buildDependencyExecutionOrder(storeOrder, storeNodes) IN
    IF dependencyPlanOfRun.hasCycle
    THEN [M0 EXCEPT !.msg = Message(CircularMessage),
                    !.run.pc = "done", !.run.result = RunRejected(CircularMessage)]
    ELSE runRangeAccepted(M0, startIndex, boundedEnd, storeOrder, storeNodes,
                          dependencyPlanOfRun)

\* runRange from its first line to its first await or its return. M.run is
\* the idle record of the call; order and nodes are the store's. The two
\* early returns come before the try block, so its finally does not run.
runRangeBegin(M, startIndex, endIndexExclusive, storeOrder, storeNodes) ==
  LET boundedEnd == Min(endIndexExclusive, Len(storeOrder))
      M0 == runRangeStart(M, startIndex, endIndexExclusive, storeOrder, storeNodes)
  IN
  IF startIndex < 0 \/ startIndex > boundedEnd
  THEN [M0 EXCEPT !.run.pc = "done", !.run.result = RunRejected(InvalidStartMessage)]
  ELSE
    LET dependencyPlanOfRun == buildDependencyExecutionOrder(storeOrder, storeNodes) IN
    IF dependencyPlanOfRun.hasCycle
    THEN [M0 EXCEPT !.msg = Message(CircularMessage),
                    !.run.pc = "done", !.run.result = RunRejected(CircularMessage)]
    ELSE runRangeAccepted(M0, startIndex, boundedEnd, storeOrder, storeNodes,
                          dependencyPlanOfRun)

\* ------------------------------------------------- imported documents
\* The export documents the model imports: the scenario workflows over the
\* nodes 1..MaxNodes in display order, given by their ref bindings
\* <<dependent, source>>, with the repeat settings of Profiles.
Independent == {}
Chain == {<<2, 1>>, <<3, 2>>}
Join == {<<3, 1>>, <<3, 2>>}
FanOut == {<<2, 1>>, <<3, 1>>}
Backward == {<<1, 3>>, <<2, 1>>}
Dangling == {<<2, Ghost>>, <<3, 2>>}
TwoCycle == {<<1, 2>>, <<2, 1>>}
SelfCycle == {<<3, 3>>}

Shapes == {Independent, Chain, Join, FanOut, Backward, Dangling, TwoCycle, SelfCycle}

RefsIn(sh, n) == {e[2] : e \in {x \in sh : x[1] = n}}

Repeating(count, loopCount, interval) ==
  [enabled |-> TRUE, count |-> count, interval |-> interval, unit |-> "seconds",
   loopCount |-> loopCount]

\* Repeat on no node, on the first node (counted, looping with a delay,
\* endless), or on the first and the second node.
RepeatOn(first, second) ==
  [n \in NodeIds |-> IF n = 1 THEN first ELSE IF n = 2 THEN second ELSE DEFAULT_NODE_REPEAT]

NoRepeat == RepeatOn(DEFAULT_NODE_REPEAT, DEFAULT_NODE_REPEAT)

Profiles ==
  {NoRepeat,
   RepeatOn(Repeating(MaxCount, 1, 0), DEFAULT_NODE_REPEAT),
   RepeatOn(Repeating(1, MaxCount, 1), DEFAULT_NODE_REPEAT),
   RepeatOn(Repeating(1, 0, 1), DEFAULT_NODE_REPEAT),
   RepeatOn(Repeating(1, 1, 0), Repeating(MaxCount, 1, 0))}

AllRpc == [n \in NodeIds |-> "getBalance"]
CustomSecond == [n \in NodeIds |-> IF n = 2 THEN "customValue" ELSE "getBalance"]

Doc(sh, pr, methods) ==
  [order |-> [i \in NodeIds |-> i],
   nodes |-> [i \in NodeIds |-> ExportNode(i, RefsIn(sh, i), pr[i], methods[i])],
   selectedNodeId |-> Ghost]

Docs ==
  {Doc(sh, pr, AllRpc) : sh \in Shapes, pr \in Profiles}
    \cup {Doc(sh, NoRepeat, CustomSecond) : sh \in Shapes}

VARIABLES
  order,            \* store: display order, a sequence of node ids
  nodes,            \* store: id -> WorkflowNode
  selectedNodeId,   \* store
  dependencyPlan,   \* page: useMemo(buildDependencyExecutionOrder(order, nodes))
  isExecuting,      \* page: useState
  activeRef,        \* page: activeExecutionAbortControllerRef.current, a run's id
  nodeCallCounts,   \* page: useState, id -> number
  nodeCallTargets,  \* page: useState, id -> PlannedCallCount
  statusMessage,    \* page: useState
  runs,             \* the runRange calls: id -> locals and place
  aborted,          \* signal.aborted of each call's AbortController
  started,          \* how many runRange calls were made
  imports,          \* how many documents were imported
  calc,             \* a call of calculatePlannedCallCounts: its locals and place
  chat,             \* a call of handleBotSubmit: its locals and place
  lookup            \* a value, its enumerated paths, and the path looked up last

storeVars == <<order, nodes, selectedNodeId, dependencyPlan>>
pageVars == <<isExecuting, activeRef, nodeCallCounts, nodeCallTargets, statusMessage>>
runVars == <<runs, aborted, started>>
vars == <<storeVars, pageVars, runVars, imports, calc, chat, lookup>>

NotRendered == [orderedNodeIds |-> <<>>, hasCycle |-> FALSE, rendered |-> FALSE]

Rendered(plan) ==
  [orderedNodeIds |-> plan.orderedNodeIds, hasCycle |-> plan.hasCycle, rendered |-> TRUE]

\* The callTargetByNodeId memo: for each node the display order presents, the
\* target of the current run when nodeCallTargets has one, else the default
\* planned count, else 0.
callTargetByNodeId(storeOrder, storeNodes, callTargets, plan) ==
  LET defaultPlannedCallCounts ==
        calculatePlannedCallCounts(plan.orderedNodeIds, storeNodes, Range(plan.orderedNodeIds))
  IN [n \in Range(storeOrder) \cap DOMAIN storeNodes |->
        IF n \in DOMAIN callTargets
        THEN (IF callTargets[n] = Unset THEN Infinite ELSE callTargets[n])
        ELSE IF defaultPlannedCallCounts[n] # Unset THEN defaultPlannedCallCounts[n]
        ELSE Num(0)]

\* No call of the calculator is being followed.
NoPass ==
  [active |-> FALSE, executionOrder |-> <<>>, includedNodeIds |-> {}, i |-> 1,
   callCounts |-> [n \in NodeIds \cup {Ghost} |-> Unset], skippedNodeIds |-> {},
   broke |-> FALSE]

\* ------------------------------------------------------- paths (path.ts)
\* A string is the sequence of its characters. A JSON-like value is null, a
\* number, an array (items: its elements) or an object (items: its own
\* properties in the order of Object.entries); undefined is what a lookup
\* that finds nothing returns.
JUndefined == [t |-> "undefined", v |-> 0, items |-> <<>>]
JNull == [t |-> "null", v |-> 0, items |-> <<>>]
JNumber(v) == [t |-> "number", v |-> v, items |-> <<>>]
JArray(items) == [t |-> "array", v |-> 0, items |-> [i \in DOMAIN items |-> [key |-> <<>>, value |-> items[i]]]]
JObject(entries) == [t |-> "object", v |-> 0, items |-> entries]
Entry(key, value) == [key |-> key, value |-> value]

Digits == <<"0", "1", "2", "3", "4", "5", "6", "7", "8", "9">>
IsDigit(c) == \E d \in DOMAIN Digits : Digits[d] = c
DigitOf(c) == (CHOOSE d \in DOMAIN Digits : Digits[d] = c) - 1

\* String(index) for an index below 10.
IndexString(index) == <<Digits[index + 1]>>

\* Number(digits) for a string of decimal digits.
RECURSIVE NumberOf(_, _)
NumberOf(digits, acc) ==
  IF digits = <<>> THEN acc
  ELSE NumberOf(Tail(digits), acc * 10 + DigitOf(Head(digits)))

\* The length of the longest prefix of a string made of characters of a set.
RECURSIVE PrefixIn(_, _)
PrefixIn(string, chars) ==
  IF string = <<>> \/ Head(string) \notin chars THEN 0
  ELSE 1 + PrefixIn(Tail(string), chars)

PathPunctuation == {".", "[", "]"}
DigitChars == {Digits[d] : d \in DOMAIN Digits}

NameToken(text) == [isNumber |-> FALSE, text |-> text, number |-> 0]
IndexToken(number) == [isNumber |-> TRUE, text |-> <<>>, number |-> number]

\* tokenizePath(path): the matches of /([^.[\]]+)|(\[(\d+)\])/g from left to
\* right. At a position where neither alternative matches, the search moves
\* on by one character.
RECURSIVE tokenizePath(_)
tokenizePath(path) ==
  IF path = <<>> THEN <<>>
  ELSE IF Head(path) \notin PathPunctuation
  THEN LET name == PrefixIn(path, {path[i] : i \in DOMAIN path} \ PathPunctuation)
       IN <<NameToken(SubSeq(path, 1, name))>> \o tokenizePath(SubSeq(path, name + 1, Len(path)))
  ELSE LET digits == PrefixIn(Tail(path), DigitChars) IN
       IF Head(path) = "[" /\ digits > 0 /\ Len(path) >= digits + 2 /\ path[digits + 2] = "]"
       THEN <<IndexToken(NumberOf(SubSeq(path, 2, digits + 1), 0))>>
            \o tokenizePath(SubSeq(path, digits + 3, Len(path)))
       ELSE tokenizePath(Tail(path))

\* current[token] for an array and a numeric token.
ElementAt(current, number) ==
  IF number < Len(current.items) THEN current.items[number + 1].value ELSE JUndefined

\* current[token] for an object or an array and a string token: the own
\* property of that name. An array's own properties are its indices (in
\* their canonical decimal form) and length.
PropertyAt(current, text) ==
  IF current.t = "object"
  THEN LET found == {i \in DOMAIN current.items : current.items[i].key = text} IN
       IF found = {} THEN JUndefined ELSE current.items[CHOOSE i \in found : TRUE].value
  ELSE IF text = <<"l", "e", "n", "g", "t", "h">> THEN JNumber(Len(current.items))
  ELSE IF \E k \in DOMAIN current.items : IndexString(k - 1) = text
  THEN current.items[CHOOSE k \in DOMAIN current.items : IndexString(k - 1) = text].value
  ELSE JUndefined

\* The loop of getByPath over the tokens.
RECURSIVE Walk(_, _)
Walk(current, tokens) ==
  IF tokens = <<>> THEN current
  ELSE IF current.t \in {"null", "undefined"} THEN JUndefined
  ELSE IF Head(tokens).isNumber
  THEN IF current.t # "array" THEN JUndefined
       ELSE Walk(ElementAt(current, Head(tokens).number), Tail(tokens))
  ELSE IF current.t \notin {"object", "array"} THEN JUndefined
  ELSE Walk(PropertyAt(current, Head(tokens).text), Tail(tokens))

\* getByPath(obj, path) on JSON-like values and strings of characters.
getByPathJson(obj, path) ==
  IF path = <<>> THEN obj ELSE Walk(obj, tokenizePath(path))

DefaultMaxDepth == 8

\* collectPaths(value, basePath, paths, depth, maxDepth): the paths it
\* pushes, in order.
RECURSIVE collectPaths(_, _, _, _)
RECURSIVE CollectItems(_, _, _, _, _)
CollectItems(value, basePath, depth, maxDepth, index) ==
  IF index > Len(value.items) THEN <<>>
  ELSE LET nextPath ==
             IF value.t = "array" THEN basePath \o <<"[">> \o IndexString(index - 1) \o <<"]">>
             ELSE IF basePath # <<>> THEN basePath \o <<".">> \o value.items[index].key
             ELSE value.items[index].key
       IN <<nextPath>>
          \o collectPaths(value.items[index].value, nextPath, depth + 1, maxDepth)
          \o CollectItems(value, basePath, depth, maxDepth, index + 1)
collectPaths(value, basePath, depth, maxDepth) ==
  IF depth > maxDepth THEN <<>>
  ELSE IF value.t \in {"array", "object"} THEN CollectItems(value, basePath, depth, maxDepth, 1)
  ELSE <<>>

enumeratePaths(obj) == collectPaths(obj, <<>>, 0, DefaultMaxDepth)

\* No value is being looked into.
NoLookup == [active |-> FALSE, obj |-> JUndefined, paths |-> <<>>, i |-> 0, result |-> JUndefined]

\* handleBotSubmit has not been called.
NoChat ==
  [pc |-> "idle", submits |-> 0, createdNodeIds |-> <<>>, run |-> None,
   reply |-> "", data |-> Rejected(NoAvailabilityError)]

PageInit ==
  /\ isExecuting = FALSE
  /\ activeRef = None
  /\ nodeCallCounts = EmptyMap
  /\ nodeCallTargets = EmptyMap
  /\ statusMessage = Message("")
  /\ runs = [r \in RunIds |-> IdleRun(r)]
  /\ aborted = [r \in RunIds |-> FALSE]
  /\ started = 0
  /\ imports = 0
  /\ calc = NoPass
  /\ chat = NoChat
  /\ lookup = NoLookup

\* The state after construction: an empty store, nothing running.
Init ==
  /\ order = <<>>
  /\ nodes = EmptyMap
  /\ selectedNodeId = None
  /\ dependencyPlan = Rendered(buildDependencyExecutionOrder(<<>>, EmptyMap))
  /\ PageInit

InProgress(r) == runs[r].pc \in {"fetch", "sleep", "capped"}

\* importWorkflow(workflow), and the render that follows it.
ImportWorkflow(workflow) ==
  /\ imports < MaxImports
  /\ imports' = imports + 1
  /\ order' = importWorkflow(workflow).order
  /\ nodes' = importWorkflow(workflow).nodes
  /\ selectedNodeId' = importWorkflow(workflow).selectedNodeId
  /\ dependencyPlan' = Rendered(buildDependencyExecutionOrder(order', nodes'))
  /\ runs' = [r \in RunIds |-> IF InProgress(r) THEN [runs[r] EXCEPT !.mutated = TRUE]
                               ELSE runs[r]]
  /\ UNCHANGED <<pageVars, aborted, started, calc, chat, lookup>>

Machine(r) ==
  [nodes |-> nodes, counts |-> nodeCallCounts, targets |-> nodeCallTargets,
   msg |-> statusMessage, exec |-> isExecuting, ref |-> activeRef,
   aborted |-> aborted[r], run |-> runs[r]]

Commit(M) ==
  /\ nodes' = M.nodes
  /\ nodeCallCounts' = M.counts
  /\ nodeCallTargets' = M.targets
  /\ statusMessage' = M.msg
  /\ isExecuting' = M.exec
  /\ activeRef' = M.ref
  /\ runs' = [runs EXCEPT ![M.run.id] = M.run]

\* A call of runRange(startIndex, endIndexExclusive) from a handler.
CallRunRange(startIndex, endIndexExclusive) ==
  /\ started < MaxRuns
  /\ started' = started + 1
  /\ Commit(runRangeBegin(Machine(started + 1), startIndex, endIndexExclusive, order, nodes))
  /\ UNCHANGED <<order, dependencyPlan, aborted, imports, calc, chat, lookup>>

\* The Execute all button.
ExecuteAll ==
  /\ ~isExecuting /\ Len(order) # 0
  /\ CallRunRange(0, Len(order))
  /\ UNCHANGED selectedNodeId

\* The Execute from current node button, with the selection as it is.
ExecuteFromSelected ==
  /\ ~isExecuting /\ Len(order) # 0
  /\ IF selectedNodeId = None
     THEN /\ statusMessage' = Message("Select a node first.")
          /\ UNCHANGED <<storeVars, isExecuting, activeRef, nodeCallCounts, nodeCallTargets,
                         runVars, imports, calc, chat, lookup>>
     ELSE /\ CallRunRange(IndexOf(order, selectedNodeId) - 1, Len(order))
          /\ UNCHANGED selectedNodeId

\* A click on a node of the canvas (selectNode), then Execute from current node.
ExecuteFromNode(nodeId) ==
  /\ ~isExecuting /\ Len(order) # 0
  /\ nodeId \in DOMAIN nodes /\ nodeId \in Range(order)
  /\ selectedNodeId' = nodeId
  /\ CallRunRange(IndexOf(order, nodeId) - 1, Len(order))

\* The node settings dialog opened on a node (which selects it), then its
\* Run Node button: no isExecuting guard.
RunNode(nodeId) ==
  /\ nodeId \in DOMAIN nodes /\ IndexOf(order, nodeId) - 1 >= 0
  /\ selectedNodeId' = nodeId
  /\ CallRunRange(IndexOf(order, nodeId) - 1, IndexOf(order, nodeId))

\* ... then its Run From Here button.
RunFromHere(nodeId) ==
  /\ nodeId \in DOMAIN nodes /\ IndexOf(order, nodeId) - 1 >= 0
  /\ selectedNodeId' = nodeId
  /\ CallRunRange(IndexOf(order, nodeId) - 1, Len(order))

\* The Stop button: stopAllActiveNodes.
StopAllActiveNodes ==
  /\ isExecuting
  /\ IF activeRef = None
     THEN UNCHANGED <<aborted, statusMessage>>
     ELSE /\ aborted' = [aborted EXCEPT ![activeRef] = TRUE]
          /\ statusMessage' = Message("Execution stopped.")
  /\ UNCHANGED <<storeVars, isExecuting, activeRef, nodeCallCounts, nodeCallTargets,
                 runs, started, imports, calc, chat, lookup>>

Resume(r, M) ==
  /\ Commit(Drive(M))
  /\ UNCHANGED <<order, selectedNodeId, dependencyPlan, aborted, started, imports, calc, chat, lookup>>

\* The transport answers a pending call with a 2xx body without an error field.
FetchResponseOk(r) ==
  /\ runs[r].pc = "fetch" /\ ~aborted[r]
  /\ Resume(r, ExecResponseOk(Machine(r)))

\* The transport answers with a non-2xx status or an error body.
FetchResponseError(r) ==
  /\ runs[r].pc = "fetch" /\ ~aborted[r]
  /\ Resume(r, ExecResponseError(Machine(r)))

\* fetch rejects with a network failure.
FetchNetworkError(r) ==
  /\ runs[r].pc = "fetch" /\ ~aborted[r]
  /\ Resume(r, Caught(Machine(r), "Failed to fetch"))

\* fetch (or the read of the body) rejects with an AbortError.
FetchAborted(r) ==
  /\ runs[r].pc = "fetch" /\ aborted[r]
  /\ Resume(r, CaughtAbort(Machine(r)))

\* The timer of sleepWithSignal fires.
SleepElapsed(r) ==
  /\ runs[r].pc = "sleep" /\ ~aborted[r]
  /\ Resume(r, ExecBegin(Machine(r), runs[r].executionOrder[runs[r].idx], "repeat"))

\* The abort listener of sleepWithSignal rejects the wait; runRange's catch
\* returns the canceled result.
SleepAborted(r) ==
  /\ runs[r].pc = "sleep" /\ aborted[r]
  /\ Resume(r, Finish(Machine(r), RunCanceled))

Next ==
  \/ \E workflow \in Docs : ImportWorkflow(workflow)
  \/ ExecuteAll
  \/ ExecuteFromSelected
  \/ \E nodeId \in NodeIds : ExecuteFromNode(nodeId)
  \/ \E nodeId \in NodeIds : RunNode(nodeId)
  \/ \E nodeId \in NodeIds : RunFromHere(nodeId)
  \/ StopAllActiveNodes
  \/ \E r \in RunIds : FetchResponseOk(r)
  \/ \E r \in RunIds : FetchResponseError(r)
  \/ \E r \in RunIds : FetchNetworkError(r)
  \/ \E r \in RunIds : FetchAborted(r)
  \/ \E r \in RunIds : SleepElapsed(r)
  \/ \E r \in RunIds : SleepAborted(r)

Spec == Init /\ [][Next]_vars

\* ------------------------------------------- the planner on its own
InitPlan ==
  /\ \E S \in SUBSET NodeIds :
       /\ nodes \in PlanNodes(S)
       /\ order \in PlanOrders(S)
  /\ selectedNodeId = None
  /\ dependencyPlan = NotRendered
  /\ PageInit

\* A render of the page: the memo is computed from the store's order and nodes.
RenderPlan ==
  /\ ~dependencyPlan.rendered
  /\ dependencyPlan' = Rendered(buildDependencyExecutionOrder(order, nodes))
  /\ UNCHANGED <<order, nodes, selectedNodeId, pageVars, runVars, imports, calc, chat, lookup>>

NextPlan == RenderPlan

SpecPlan == InitPlan /\ [][NextPlan]_vars

\* ------------------------------------------------ the store on its own
\* buildDefaultParams(method): a literal null binding for each field of a
\* table schema.
buildDefaultParams(method) ==
  LET entry == getMethodEntry(method) IN
  IF entry = NoEntry THEN [schemaMode |-> "unknown", params |-> <<>>]
  ELSE IF entry.params.kind = "table"
  THEN [schemaMode |-> "known",
        params |-> [i \in DOMAIN entry.params.fields |->
                      [name |-> entry.params.fields[i].name, value |-> LiteralValue]]]
  ELSE [schemaMode |-> "known", params |-> <<>>]

\* buildNode(method, position); id is the fresh random id.
buildNode(method, id, position) ==
  [id |-> id, name |-> NameOf(position), method |-> method,
   schemaMode |-> buildDefaultParams(method).schemaMode,
   params |-> buildDefaultParams(method).params, rawParamsJson |-> "[]",
   repeat |-> DEFAULT_NODE_REPEAT, position |-> GridPosition(position),
   status |-> "idle", output |-> Undefined, error |-> Undefined, outputOpen |-> FALSE]

\* array[k] for a 0-based k, undefined (None) outside the array.
At(array, k) == IF k >= 0 /\ k < Len(array) THEN array[k + 1] ELSE None

\* array.splice(k, 1) and array.splice(k, 0, x) for a 0-based k.
RemoveAt(array, k) == SubSeq(array, 1, k) \o SubSeq(array, k + 2, Len(array))
InsertAt(array, k, x) ==
  LET at == Min(k, Len(array)) IN SubSeq(array, 1, at) \o <<x>> \o SubSeq(array, at + 1, Len(array))

\* The store's buildReferenceAdjacency(nodes): source id -> the nodes with
\* a ref binding that names it.
storeBuildReferenceAdjacency(storeNodes) ==
  [s \in AllIds |-> {storeNodes[k].id : k \in {n \in DOMAIN storeNodes :
                                                  s \in RefSources(storeNodes[n])}}]

\* The nodes the search of hasPath visits from a set of nodes.
RECURSIVE Visited(_, _)
Visited(adjacency, visited) ==
  LET more == UNION {adjacency[n] : n \in visited \cap DOMAIN adjacency} \ visited
  IN IF more = {} THEN visited ELSE Visited(adjacency, visited \cup more)

hasPath(adjacency, fromNodeId, toNodeId) ==
  \/ fromNodeId = toNodeId
  \/ \E current \in Visited(adjacency, {fromNodeId}) \cap DOMAIN adjacency :
       toNodeId \in adjacency[current]

\* wouldCreateReferenceCycle refusing only a node's ref to itself.
storeWouldCreateReferenceCycleSelfOnly(storeNodes, targetNodeId, sourceNodeId) ==
  targetNodeId = sourceNodeId

\* wouldCreateReferenceCycle always answering no.
storeWouldCreateReferenceCycleNever(storeNodes, targetNodeId, sourceNodeId) ==
  FALSE

\* The store's wouldCreateReferenceCycle(nodes, targetNodeId, sourceNodeId).
storeWouldCreateReferenceCycle(storeNodes, targetNodeId, sourceNodeId) ==
  \/ targetNodeId = sourceNodeId
  \/ hasPath(storeBuildReferenceAdjacency(storeNodes), targetNodeId, sourceNodeId)

\* set(...) of the store, and the render that follows it.
StoreSet(nextOrder, nextNodes, nextSelectedNodeId) ==
  /\ order' = nextOrder
  /\ nodes' = nextNodes
  /\ selectedNodeId' = nextSelectedNodeId
  /\ dependencyPlan' = Rendered(buildDependencyExecutionOrder(nextOrder, nextNodes))
  /\ UNCHANGED <<pageVars, runVars, imports, calc, chat, lookup>>

\* addNode(method); id is the random id buildNode draws.
AddNode(method, id) ==
  /\ Cardinality(DOMAIN nodes) < MaxAdded
  /\ id \notin DOMAIN nodes \cup Range(order)
  /\ StoreSet(Append(order, id),
              [k \in DOMAIN nodes \cup {id} |->
                 IF k = id THEN buildNode(method, id, Len(order) + 1) ELSE nodes[k]],
              id)

\* removeNode(nodeId)
RemoveNode(nodeId) ==
  IF nodeId \notin DOMAIN nodes THEN UNCHANGED vars
  ELSE LET currentIndex == IndexOf(order, nodeId) - 1
           nextOrder == SelectSeq(order, LAMBDA id : id # nodeId)
           candidate == IF At(nextOrder, currentIndex) # None
                        THEN At(nextOrder, currentIndex)
                        ELSE At(nextOrder, currentIndex - 1)
       IN StoreSet(nextOrder, [k \in DOMAIN nodes \ {nodeId} |-> nodes[k]],
                   IF selectedNodeId = nodeId THEN candidate ELSE selectedNodeId)

\* reorderNodes(fromNodeId, toNodeId)
ReorderNodes(fromNodeId, toNodeId) ==
  LET fromIndex == IndexOf(order, fromNodeId) - 1
      toIndex == IndexOf(order, toNodeId) - 1
  IN IF fromNodeId = toNodeId \/ fromIndex < 0 \/ toIndex < 0 THEN UNCHANGED vars
     ELSE StoreSet(InsertAt(RemoveAt(order, fromIndex), toIndex, order[fromIndex + 1]),
                   nodes, selectedNodeId)

\* The params of setParamValue: the binding of that name replaced, or a new
\* binding appended.
WithParam(params, paramName, value) ==
  IF \E i \in DOMAIN params : params[i].name = paramName
  THEN [i \in DOMAIN params |->
          IF params[i].name = paramName THEN [params[i] EXCEPT !.value = value]
          ELSE params[i]]
  ELSE Append(params, [name |-> paramName, value |-> value])

\* The nodes of the store after setParamValue(nodeId, paramName, value).
setParamValue(storeNodes, nodeId, paramName, value) ==
  IF nodeId \notin DOMAIN storeNodes THEN storeNodes
  ELSE IF value.type = "ref" /\ storeWouldCreateReferenceCycle(storeNodes, nodeId, value.nodeId)
  THEN storeNodes
  ELSE [storeNodes EXCEPT ![nodeId].params = WithParam(@, paramName, value)]

\* setParamValue(nodeId, paramName, value)
SetParamValue(nodeId, paramName, value) ==
  /\ nodeId \in NodeIds \cup {Ghost}
  /\ StoreSet(order, setParamValue(nodes, nodeId, paramName, value), selectedNodeId)

\* {...node.repeat, ...repeat}
Merged(record, patch) ==
  [f \in DOMAIN record |-> IF f \in DOMAIN patch THEN patch[f] ELSE record[f]]

\* setNodeRepeat(nodeId, repeat)
SetNodeRepeat(nodeId, repeat) ==
  IF nodeId \notin DOMAIN nodes THEN UNCHANGED vars
  ELSE StoreSet(order,
                [nodes EXCEPT ![nodeId].repeat =
                   normalizeRepeat(Merged(AsNumbers(@), repeat))],
                selectedNodeId)

\* clearOutputs()
ClearOutputs ==
  LET nextNodes ==
        [k \in DOMAIN nodes |->
           [nodes[k] EXCEPT !.output = Undefined, !.error = Undefined, !.status = "idle"]]
  IN StoreSet(order, nextNodes, selectedNodeId)

\* Documents the schema accepts: a chain, a join exported with outputs, and
\* documents whose order repeats an id, leaves a node out, or names no node.
WithOutput(node) == [node EXCEPT !.output = "data", !.position = [x |-> Finite(0 - 40), y |-> Finite(120)]]

StoreDocs ==
  {Doc(Chain, NoRepeat, AllRpc),
   [Doc(Join, NoRepeat, AllRpc) EXCEPT
      !.nodes = [i \in NodeIds |-> WithOutput(@[i])], !.selectedNodeId = 1],
   [Doc(Chain, NoRepeat, AllRpc) EXCEPT !.order = <<1, 2, 2>>],
   [Doc(SelfCycle, NoRepeat, AllRpc) EXCEPT !.order = <<1, 2>>],
   [Doc(Independent, NoRepeat, AllRpc) EXCEPT !.order = <<1, 2, 3, Ghost>>]}

\* What the handlers pass to setParamValue and setNodeRepeat.
StoreParamNames == {ParamNames[1]}
StoreParamValues == {LiteralValue} \cup {RefValue(src) : src \in NodeIds}
StoreRepeats == {[enabled |-> TRUE, count |-> Whole(0)]}

NextStore ==
  \/ \E id \in NodeIds : AddNode("getBalance", id)
  \/ \E nodeId \in NodeIds \cup {Ghost} : RemoveNode(nodeId)
  \/ \E fromNodeId, toNodeId \in NodeIds \cup {Ghost} : ReorderNodes(fromNodeId, toNodeId)
  \/ \E nodeId \in NodeIds \cup {Ghost} : \E paramName \in StoreParamNames :
       \E value \in StoreParamValues : SetParamValue(nodeId, paramName, value)
  \/ \E nodeId \in NodeIds \cup {Ghost} : \E repeat \in StoreRepeats :
       SetNodeRepeat(nodeId, repeat)
  \/ ClearOutputs
  \/ \E workflow \in StoreDocs : ImportWorkflow(workflow)

SpecStore == Init /\ [][NextStore]_vars

\* ------------------------------------------ a store edited from empty
\* The store's actions other than importWorkflow, from the empty store, with
\* ref bindings to any id (of a node, of a removed node, of no node yet).
NextEdit ==
  \/ \E id \in NodeIds : AddNode("getBalance", id)
  \/ \E nodeId \in NodeIds : RemoveNode(nodeId)
  \/ \E fromNodeId, toNodeId \in NodeIds : ReorderNodes(fromNodeId, toNodeId)
  \/ \E nodeId \in NodeIds : \E paramName \in StoreParamNames :
       \E value \in StoreParamValues : SetParamValue(nodeId, paramName, value)
  \/ \E nodeId \in NodeIds : \E repeat \in StoreRepeats : SetNodeRepeat(nodeId, repeat)

SpecEdit == Init /\ [][NextEdit]_vars

\* ------------------------------------------- the repeat settings of a node
\* What the settings dialog can pass to setNodeRepeat for a number: values
\* below, at and above the bounds of each field, with and without a
\* fraction, and the values that are not finite.
RepeatNumbers ==
  {Halves(0 - 3), Whole(0), Halves(1), Whole(3), Halves(7),
   Whole(1000), Halves(2001), Whole(1001),
   Whole(100000), Whole(100001),
   Whole(86400000), Halves(172800001),
   NaN, PlusInfinity, MinusInfinity}

\* Patches of the three numbers at once, of one number, and of the unit
\* (one of them outside the enumeration).
RepeatPatches ==
  {[count |-> x, interval |-> x, loopCount |-> x] : x \in RepeatNumbers}
    \cup {[count |-> NaN], [loopCount |-> Whole(0)]}
    \cup {[unit |-> u] : u \in {"minutes", "hours"}}

\* Documents the schema accepts: every node with a repeat inside the bounds,
\* and every node without repeat.
RepeatDocs ==
  {Doc(Independent, RepeatOn(Repeating(MaxCount, 0, 1), DEFAULT_NODE_REPEAT), AllRpc),
   Doc(Independent, [n \in NodeIds |-> EmptyMap], AllRpc)}

\* The nodes whose settings dialog is used.
RepeatTargets == {1, 2}

NextRepeat ==
  \/ \E id \in NodeIds : AddNode("getBalance", id)
  \/ \E nodeId \in RepeatTargets : \E repeat \in RepeatPatches :
       SetNodeRepeat(nodeId, repeat)
  \/ \E workflow \in RepeatDocs : ImportWorkflow(workflow)

SpecRepeat == Init /\ [][NextRepeat]_vars

\* ---------------------------------------- the calculator on its own
\* Repeat settings of a node: disabled, counted (count, looped, both), endless.
CalcRepeats ==
  {DEFAULT_NODE_REPEAT, Repeating(MaxCount, 1, 0), Repeating(MaxCount, MaxCount, 0),
   Repeating(1, 0, 0)}

\* Every way to give each node of S a repeat setting and at most MaxRefs ref
\* bindings to ids of S.
CalcNodes(S) ==
  {[n \in S |-> ImportedNode(ExportNode(n, refs[n], repeat[n], "getBalance"), n)] :
     refs \in [S -> {rs \in SUBSET S : Cardinality(rs) <= MaxRefs}],
     repeat \in [S -> CalcRepeats]}

\* A call calculatePlannedCallCounts(plan.orderedNodeIds, nodes, included)
\* about to enter its loop.
PassBegin(executionOrder, includedNodeIds) ==
  [active |-> TRUE, executionOrder |-> executionOrder, includedNodeIds |-> includedNodeIds,
   i |-> 1, callCounts |-> [n \in NodeIds \cup {Ghost} |-> Unset], skippedNodeIds |-> {},
   broke |-> FALSE]

InitCalc ==
  /\ \E S \in SUBSET NodeIds :
       /\ nodes \in CalcNodes(S)
       /\ order = SetToSeq(S)
  /\ selectedNodeId = None
  /\ dependencyPlan = Rendered(buildDependencyExecutionOrder(order, nodes))
  /\ isExecuting = FALSE
  /\ activeRef = None
  /\ nodeCallCounts = EmptyMap
  /\ nodeCallTargets = EmptyMap
  /\ statusMessage = Message("")
  /\ runs = [r \in RunIds |-> IdleRun(r)]
  /\ aborted = [r \in RunIds |-> FALSE]
  /\ started = 0
  /\ imports = 0
  /\ chat = NoChat
  /\ lookup = NoLookup
  /\ \E includedNodeIds \in SUBSET Range(order) :
       calc = PassBegin(dependencyPlan.orderedNodeIds, includedNodeIds)

PassEnded(pass) == pass.active /\ (pass.broke \/ pass.i > Len(pass.executionOrder))

\* One iteration of the loop of calculatePlannedCallCounts.
CalcStep ==
  /\ calc.active /\ ~PassEnded(calc)
  /\ LET after == PlannedStep(calc.executionOrder, nodes, calc.includedNodeIds, calc.i,
                              calc.callCounts, calc.skippedNodeIds)
     IN calc' = [calc EXCEPT !.i = after.i, !.callCounts = after.callCounts,
                             !.skippedNodeIds = after.skippedNodeIds,
                             !.broke = after.broke]
  /\ UNCHANGED <<storeVars, pageVars, runVars, imports, chat, lookup>>

NextCalc == CalcStep

SpecCalc == InitCalc /\ [][NextCalc]_vars

\* ------------------------------------------------- runRange on its own
\* runRange called with every start index and end index around the bounds of
\* the display order, on the imported workflows, while no run is active.
RangeStarts == -1 .. MaxNodes + 1
RangeEnds == 0 .. MaxNodes + 1

RunRange(startIndex, endIndexExclusive) ==
  /\ ~isExecuting
  /\ CallRunRange(startIndex, endIndexExclusive)
  /\ UNCHANGED selectedNodeId

NextRange ==
  \/ \E workflow \in Docs : ImportWorkflow(workflow)
  \/ \E startIndex \in RangeStarts, endIndexExclusive \in RangeEnds :
       RunRange(startIndex, endIndexExclusive)
  \/ StopAllActiveNodes
  \/ \E r \in RunIds : FetchResponseOk(r)
  \/ \E r \in RunIds : FetchResponseError(r)
  \/ \E r \in RunIds : FetchNetworkError(r)
  \/ \E r \in RunIds : FetchAborted(r)
  \/ \E r \in RunIds : SleepElapsed(r)
  \/ \E r \in RunIds : SleepAborted(r)

SpecRange == Init /\ [][NextRange]_vars

\* ------------------------------------------------ the chat panel (client)
\* The store as a value: what addNode, setParamValue, removeNode and
\* clearOutputs leave when called one after the other inside a handler.
StoreOf(storeOrder, storeNodes, storeSelectedNodeId) ==
  [order |-> storeOrder, nodes |-> storeNodes, selectedNodeId |-> storeSelectedNodeId]

addNode(store, method, id) ==
  StoreOf(Append(store.order, id),
          [k \in DOMAIN store.nodes \cup {id} |->
             IF k = id THEN buildNode(method, id, Len(store.order) + 1) ELSE store.nodes[k]],
          id)

removeNode(store, nodeId) ==
  IF nodeId \notin DOMAIN store.nodes THEN store
  ELSE LET currentIndex == IndexOf(store.order, nodeId) - 1
           nextOrder == SelectSeq(store.order, LAMBDA id : id # nodeId)
           candidate == IF At(nextOrder, currentIndex) # None
                        THEN At(nextOrder, currentIndex)
                        ELSE At(nextOrder, currentIndex - 1)
       IN StoreOf(nextOrder, [k \in DOMAIN store.nodes \ {nodeId} |-> store.nodes[k]],
                  IF store.selectedNodeId = nodeId THEN candidate ELSE store.selectedNodeId)

clearOutputs(storeNodes) ==
  [k \in DOMAIN storeNodes |->
     [storeNodes[k] EXCEPT !.output = Undefined, !.error = Undefined, !.status = "idle"]]

\* toWorkflowParamValue for a field of a proposal: a ref by fromNodeIndex 0
\* becomes a ref to the node created for the first proposal, when there is
\* one; anything else is a literal.
toWorkflowParamValue(isRef, createdNodeIdsByIndex) ==
  IF isRef /\ Len(createdNodeIdsByIndex) > 0 /\ createdNodeIdsByIndex[1] # None
  THEN RefValue(createdNodeIdsByIndex[1])
  ELSE LiteralValue

\* The first loop of applyNodeProposals: addNode for each proposal whose
\* method has an entry; ids[index] is the random id of the node it creates.
RECURSIVE AddProposed(_, _, _, _, _)
AddProposed(store, proposals, ids, index, createdNodeIdsByIndex) ==
  IF index > Len(proposals)
  THEN [store |-> store, createdNodeIdsByIndex |-> createdNodeIdsByIndex]
  ELSE IF getMethodEntry(proposals[index].method) = NoEntry
  THEN AddProposed(store, proposals, ids, index + 1, Append(createdNodeIdsByIndex, None))
  ELSE AddProposed(addNode(store, proposals[index].method, ids[index]), proposals, ids,
                   index + 1, Append(createdNodeIdsByIndex, ids[index]))

\* The loop over the fields of one proposal: setParamValue for each field
\* the proposal supplies.
RECURSIVE BindFields(_, _, _, _, _)
BindFields(storeNodes, proposal, nodeId, k, createdNodeIdsByIndex) ==
  LET fields == getMethodEntry(proposal.method).params.fields IN
  IF k > Len(fields) THEN storeNodes
  ELSE IF fields[k].name \notin proposal.supplied
  THEN BindFields(storeNodes, proposal, nodeId, k + 1, createdNodeIdsByIndex)
  ELSE BindFields(setParamValue(storeNodes, nodeId, fields[k].name,
                                toWorkflowParamValue(fields[k].name \in proposal.refs,
                                                     createdNodeIdsByIndex)),
                  proposal, nodeId, k + 1, createdNodeIdsByIndex)

\* The second loop of applyNodeProposals.
RECURSIVE BindProposed(_, _, _, _)
BindProposed(storeNodes, proposals, index, createdNodeIdsByIndex) ==
  IF index > Len(proposals) THEN storeNodes
  ELSE IF createdNodeIdsByIndex[index] = None
          \/ getMethodEntry(proposals[index].method).params.kind # "table"
  THEN BindProposed(storeNodes, proposals, index + 1, createdNodeIdsByIndex)
  ELSE BindProposed(BindFields(storeNodes, proposals[index], createdNodeIdsByIndex[index],
                               1, createdNodeIdsByIndex),
                    proposals, index + 1, createdNodeIdsByIndex)

\* applyNodeProposals(proposals): the store after it and the ids it created.
applyNodeProposals(store, proposals, ids) ==
  LET added == AddProposed(store, proposals, ids, 1, <<>>)
      bound == BindProposed(added.store.nodes, proposals, 1, added.createdNodeIdsByIndex)
  IN [store |-> [added.store EXCEPT !.nodes = bound],
      createdNodeIds |-> SelectSeq(added.createdNodeIdsByIndex, LAMBDA id : id # None)]

\* removeNode for the created nodes, the last one first.
RECURSIVE RemoveCreated(_, _, _)
RemoveCreated(store, createdNodeIds, index) ==
  IF index < 1 THEN store
  ELSE RemoveCreated(removeNode(store, createdNodeIds[index]), createdNodeIds, index - 1)

\* The random ids of the nodes a list of proposals creates: distinct ids
\* that name no node of the store.
FreshIds(storeNodes, count) ==
  {ids \in [1..count -> NodeIds \ DOMAIN storeNodes] :
     \A i, j \in 1..count : i # j => ids[i] # ids[j]}

\* What the assistant may answer: nothing, a scalar, one object, or an array of up to
\* MaxProposals entries.
MaxProposals == 2
RawEntries ==
  {RawScalar,
   RawObject(NumberValue, {}, {}),
   RawObject(StringValue("", TRUE), {}, {}),
   RawObject(StringValue("getAsset", FALSE), {ParamNames[2]}, {}),
   RawObject(StringValue("getBalance", TRUE), {}, {}),
   RawObject(StringValue("getTokenAccountsByOwner", FALSE), {}, {}),
   RawObject(StringValue("getTokenAccountsByOwner", FALSE), {ParamNames[3]}, {}),
   RawObject(StringValue("getTokenAccountsByOwner", FALSE), {ParamNames[2]}, {}),
   RawObject(StringValue("getTokenAccountsByOwner", FALSE), {ParamNames[2]}, {ParamNames[2]}),
   RawObject(StringValue("getTokenAccountsByOwner", FALSE), {ParamNames[2], ParamNames[3], ParamNames[1]}, {})}
RawInputs ==
  {NullInput, ScalarInput} \cup {ObjectInput(entry) : entry \in RawEntries \ {RawScalar}}
  \cup UNION {{ArrayInput(entries) : entries \in [1..len -> RawEntries]} : len \in 0..MaxProposals}

\* handleBotSubmit up to its first await: the request of a plan.
HandleBotSubmit ==
  /\ chat.pc = "idle" /\ ~isExecuting
  /\ chat' = [chat EXCEPT !.pc = "plan", !.submits = @ + 1]
  /\ UNCHANGED <<storeVars, pageVars, runVars, imports, calc, lookup>>

\* The end of handleBotSubmit: the assistant's message is appended.
ChatDone(data, reply) ==
  /\ chat' = [chat EXCEPT !.pc = "done", !.data = data, !.reply = reply]
  /\ UNCHANGED <<storeVars, pageVars, runVars, imports, calc, lookup>>

\* applyNodeProposals, clearOutputs and runRange(0, order.length) up to the
\* run's first await or its return.
ChatApplyAndValidate(store, data, ids, pcNext, reply) ==
  LET applied == applyNodeProposals(store, data.proposals, ids)
      cleared == clearOutputs(applied.store.nodes)
  IN IF Len(applied.createdNodeIds) = 0
     THEN ChatDone(data, "No nodes were added because none of the proposed methods were available.")
     ELSE /\ started < MaxRuns
          /\ started' = started + 1
          /\ Commit(runRangeBegin([Machine(started + 1) EXCEPT !.nodes = cleared],
                                  0, Len(applied.store.order), applied.store.order, cleared))
          /\ order' = applied.store.order
          /\ selectedNodeId' = applied.store.selectedNodeId
          /\ dependencyPlan' =
               Rendered(buildDependencyExecutionOrder(applied.store.order, cleared))
          /\ chat' = [chat EXCEPT !.pc = pcNext, !.data = data, !.reply = reply,
                                  !.createdNodeIds = applied.createdNodeIds,
                                  !.run = started + 1]
          /\ UNCHANGED <<aborted, imports, calc, lookup>>

\* handleBotSubmit from the plan it settled on to its next await or its end.
ChatProceed(data) ==
  IF Len(data.proposals) > 0
  THEN IF data.canAddNodes
       THEN \E ids \in FreshIds(nodes, Len(data.proposals)) :
              ChatApplyAndValidate(StoreOf(order, nodes, selectedNodeId), data, ids,
                                   "validating", "Added node(s) to the workflow.")
       ELSE ChatDone(data, "Could not add node(s)")
  ELSE IF data.availabilityError # NoAvailabilityError
  THEN ChatDone(data, "Could not add node(s)")
  ELSE ChatDone(data, "Could not create a valid node plan.")

\* The route answers the plan request with what validateProposals made of
\* the assistant's JSON.
ChatPlanResponse(raw) ==
  /\ chat.pc = "plan"
  /\ LET data == validateProposals(raw) IN
     IF Len(data.proposals) = 0 \/ ~data.canAddNodes
     THEN /\ chat' = [chat EXCEPT !.pc = "retry", !.data = data]
          /\ UNCHANGED <<storeVars, pageVars, runVars, imports, calc, lookup>>
     ELSE ChatProceed(data)

\* The route answers the second request.
ChatRetryResponse(raw) ==
  /\ chat.pc = "retry"
  /\ LET retryData == validateProposals(raw) IN
     IF Len(retryData.proposals) > 0 /\ retryData.canAddNodes
     THEN ChatProceed(retryData)
     ELSE ChatProceed(chat.data)

\* requestChatPlan throws: the catch block answers with the error.
ChatRequestFailed ==
  /\ chat.pc \in {"plan", "retry", "repair"}
  /\ ChatDone(chat.data, "Error")

\* The validation run returned.
ChatValidationEnded ==
  /\ chat.pc = "validating" /\ runs[chat.run].pc = "done"
  /\ IF runs[chat.run].result.success
     THEN ChatDone(chat.data, "Validation passed.")
     ELSE IF runs[chat.run].result.canceled
     THEN ChatDone(chat.data, "Validation was stopped.")
     ELSE /\ chat' = [chat EXCEPT !.pc = "repair"]
          /\ UNCHANGED <<storeVars, pageVars, runVars, imports, calc, lookup>>

\* The route answers the repair request.
ChatRepairResponse(raw) ==
  /\ chat.pc = "repair"
  /\ LET repairData == validateProposals(raw) IN
     IF repairData.canAddNodes /\ Len(repairData.proposals) > 0
     THEN LET removed == RemoveCreated(StoreOf(order, nodes, selectedNodeId),
                                       chat.createdNodeIds, Len(chat.createdNodeIds))
          IN \E ids \in FreshIds(removed.nodes, Len(repairData.proposals)) :
               ChatApplyAndValidate(removed, repairData, ids, "revalidating",
                                    "Added node(s) to the workflow.")
     ELSE ChatDone(repairData, "Validation failed and no safe correction plan was available")

\* The run after the repair returned.
ChatRepairEnded ==
  /\ chat.pc = "revalidating" /\ runs[chat.run].pc = "done"
  /\ ChatDone(chat.data,
              IF runs[chat.run].result.success THEN "auto-correction succeeded."
              ELSE IF runs[chat.run].result.canceled
              THEN "Auto-correction validation was stopped."
              ELSE "Auto-correction attempted but still failed")

NextChat ==
  \/ HandleBotSubmit
  \/ \E raw \in RawInputs : ChatPlanResponse(raw)
  \/ \E raw \in RawInputs : ChatRetryResponse(raw)
  \/ ChatRequestFailed
  \/ ChatValidationEnded
  \/ \E raw \in RawInputs : ChatRepairResponse(raw)
  \/ ChatRepairEnded
  \/ StopAllActiveNodes
  \/ \E r \in RunIds : FetchResponseOk(r)
  \/ \E r \in RunIds : FetchResponseError(r)
  \/ \E r \in RunIds : FetchNetworkError(r)
  \/ \E r \in RunIds : FetchAborted(r)

SpecChat == Init /\ [][NextChat]_vars

\* ------------------------------------- the store edited during a run
\* Workflows of independent nodes, of a chain behind a repeating node, and
\* of two dependents of one node; the edits the node cards and the settings
\* dialog make, which stay enabled while a run is in progress.
LiveDocs ==
  {Doc(Independent, NoRepeat, AllRpc),
   Doc(Chain, RepeatOn(Repeating(MaxCount, 1, 0), DEFAULT_NODE_REPEAT), AllRpc),
   Doc(FanOut, NoRepeat, AllRpc)}
LiveParamValues == {LiteralValue, RefValue(1)}
LiveRepeats == {[enabled |-> FALSE]}

\* An edit made while a run is in progress.
EditDuringRun ==
  /\ isExecuting
  /\ \/ \E nodeId \in NodeIds : RemoveNode(nodeId)
     \/ \E nodeId \in NodeIds : \E value \in LiveParamValues :
          SetParamValue(nodeId, ParamNames[1], value)
     \/ \E nodeId \in NodeIds : \E repeat \in LiveRepeats : SetNodeRepeat(nodeId, repeat)

NextLive ==
  \/ \E workflow \in LiveDocs : ImportWorkflow(workflow)
  \/ ExecuteAll
  \/ EditDuringRun
  \/ \E r \in RunIds : FetchResponseOk(r)
  \/ \E r \in RunIds : FetchResponseError(r)

SpecLive == Init /\ [][NextLive]_vars

\* ------------------------------------------ runs started from the toolbar
\* The toolbar buttons are disabled while isExecuting, so the runs they start
\* follow one another. Beside the documents of Docs, two repeating nodes
\* that share a dependent.
SharedDependentDoc == Doc(Join, RepeatOn(Repeating(1, 1, 0), Repeating(1, 1, 0)), AllRpc)
\* ... and a last node that repeats in two cycles with a delay, alone in the
\* range of a run that starts from it.
DelayedCyclesDoc ==
  Doc(Independent,
      [n \in NodeIds |-> IF n = MaxNodes THEN Repeating(MaxCount, MaxCount, 1)
                         ELSE DEFAULT_NODE_REPEAT],
      AllRpc)
ToolbarDocs == Docs \cup {SharedDependentDoc, DelayedCyclesDoc}

NextToolbar ==
  \/ \E workflow \in ToolbarDocs : ImportWorkflow(workflow)
  \/ ExecuteAll
  \/ \E nodeId \in NodeIds : ExecuteFromNode(nodeId)
  \/ StopAllActiveNodes
  \/ \E r \in RunIds : FetchResponseOk(r)
  \/ \E r \in RunIds : FetchResponseError(r)
  \/ \E r \in RunIds : FetchNetworkError(r)
  \/ \E r \in RunIds : FetchAborted(r)
  \/ \E r \in RunIds : SleepElapsed(r)
  \/ \E r \in RunIds : SleepAborted(r)

SpecToolbar == Init /\ [][NextToolbar]_vars

\* --------------------------------------- one run of a store of any shape
\* A store of MaxNodes nodes in any display order, each node with up to
\* MaxRefs ref bindings to nodes of the store (to itself, to nodes displayed
\* before or after it), the node of id 1 repeating or not; one run of it,
\* started from the toolbar, answered by the transport.
AnyRefSets == {rs \in SUBSET NodeIds : Cardinality(rs) <= MaxRefs}
AnyRepeats == {DEFAULT_NODE_REPEAT, Repeating(MaxCount, 1, 0)}
AnyNodes ==
  {[n \in NodeIds |->
      ImportedNode(ExportNode(n, refs[n],
                              IF n = 1 THEN repeat ELSE DEFAULT_NODE_REPEAT,
                              "getBalance"), n)] :
     refs \in [NodeIds -> AnyRefSets], repeat \in AnyRepeats}

InitAnyStore ==
  /\ order \in Perms(NodeIds)
  /\ nodes \in AnyNodes
  /\ selectedNodeId = None
  /\ dependencyPlan = Rendered(buildDependencyExecutionOrder(order, nodes))
  /\ PageInit

\* The first press of Execute all, or of Execute from current node.
FirstExecuteAll == started = 0 /\ ExecuteAll
FirstExecuteFromNode(nodeId) == started = 0 /\ ExecuteFromNode(nodeId)

NextAnyStore ==
  \/ FirstExecuteAll
  \/ \E nodeId \in NodeIds : FirstExecuteFromNode(nodeId)
  \/ \E r \in RunIds : FetchResponseOk(r)
  \/ \E r \in RunIds : FetchResponseError(r)

SpecAnyStore == InitAnyStore /\ [][NextAnyStore]_vars

\* ------------------------------------------------- path.ts on its own
\* Property names: plain ones, one that is a decimal index, and names that
\* hold the characters the path syntax uses, or no character at all.
Keys ==
  {<<"a">>, <<"b">>, <<"0">>, <<"a", ".", "b">>, <<"[", "0", "]">>, <<>>}
JScalars == {JNull, JNumber(1), JNumber(2)}

\* Arrays of up to two elements and objects of up to two properties over a
\* set of values; the properties of an object are in one order.
KeyPairs == {pair \in Keys \X Keys : pair[1] # pair[2]}
ContainersOver(values) ==
  {JArray(<<>>)}
  \cup {JArray(<<x>>) : x \in values}
  \cup {JArray(<<x, y>>) : x \in values, y \in values}
  \cup {JObject(<<Entry(k, x)>>) : k \in Keys, x \in values}
  \cup {JObject(<<Entry(pair[1], x), Entry(pair[2], y)>>) :
          pair \in KeyPairs, x \in values, y \in values}

\* The values looked into: scalars, containers of scalars, and containers
\* of one such container beside a scalar.
JsonValues ==
  JScalars \cup ContainersOver(JScalars)
  \cup {JArray(<<x>>) : x \in ContainersOver(JScalars)}
  \cup {JObject(<<Entry(k, x)>>) : k \in Keys, x \in ContainersOver({JNumber(1)})}
  \cup {JObject(<<Entry(<<"a">>, x), Entry(<<"b">>, JNumber(2))>>) :
          x \in ContainersOver({JNumber(1)})}

InitPath ==
  /\ order = <<>>
  /\ nodes = EmptyMap
  /\ selectedNodeId = None
  /\ dependencyPlan = Rendered(buildDependencyExecutionOrder(<<>>, EmptyMap))
  /\ isExecuting = FALSE
  /\ activeRef = None
  /\ nodeCallCounts = EmptyMap
  /\ nodeCallTargets = EmptyMap
  /\ statusMessage = Message("")
  /\ runs = [r \in RunIds |-> IdleRun(r)]
  /\ aborted = [r \in RunIds |-> FALSE]
  /\ started = 0
  /\ imports = 0
  /\ calc = NoPass
  /\ chat = NoChat
  /\ \E obj \in JsonValues :
       lookup = [active |-> TRUE, obj |-> obj, paths |-> enumeratePaths(obj), i |-> 0,
                 result |-> JUndefined]

\* getByPath(obj, path) for the next enumerated path.
GetByPath ==
  /\ lookup.active /\ lookup.i < Len(lookup.paths)
  /\ lookup' = [lookup EXCEPT !.i = @ + 1,
                              !.result = getByPathJson(lookup.obj, lookup.paths[lookup.i + 1])]
  /\ UNCHANGED <<storeVars, pageVars, runVars, imports, calc, chat>>

NextPath == GetByPath

SpecPath == InitPath /\ [][NextPath]_vars

\* ============================================== properties: the planner
\* The nodes a display order presents: its entries that name a node.
Presented == Range(order) \cap DOMAIN nodes

\* The reference graph restricted to a set of node ids: an edge from a
\* source to each node of the set that has a ref binding naming it.
RefEdges(ids, nodeMap) == {e \in ids \X ids : e[1] \in RefSources(nodeMap[e[2]])}

\* A directed cycle: a closed walk s1 -> s2 -> ... -> sk -> s1, k >= 1.
HasDirectedCycle(ids, nodeMap) ==
  LET edges == RefEdges(ids, nodeMap) IN
  /\ edges # {}
  /\ \E k \in 1..Cardinality(ids) : \E walk \in [1..k -> ids] :
       /\ \A i \in 1..(k - 1) : <<walk[i], walk[i + 1]>> \in edges
       /\ <<walk[k], walk[1]>> \in edges

RECURSIVE EmitSmallestReady(_, _, _)
EmitSmallestReady(emitted, ids, nodeMap) ==
  LET ready == {n \in ids \ Range(emitted) :
                  (RefSources(nodeMap[n]) \cap ids) \subseteq Range(emitted)}
  IN IF ready = {} THEN emitted
     ELSE LET next == CHOOSE n \in ready :
                        \A m \in ready : IndexOf(order, n) <= IndexOf(order, m)
          IN EmitSmallestReady(Append(emitted, next), ids, nodeMap)

\* The nodes with the bindings of every node in the opposite order.
BindingsReversed(nodeMap) ==
  [n \in DOMAIN nodeMap |->
     [nodeMap[n] EXCEPT !.params =
        [i \in DOMAIN nodeMap[n].params |->
           nodeMap[n].params[Len(nodeMap[n].params) + 1 - i]]]]

IncludedSources(run, i) ==
  IF run.log[i] \in DOMAIN run.state
  THEN RefSources(run.state[run.log[i]]) \cap run.includedNodeIds
  ELSE {}

\* C1: every invocation of a node in a run comes after an invocation, in
\* that run, of every node of the included range that the node references.
C1_SourcesExecutedEarlier ==
  \A r \in RunIds : \A i \in DOMAIN runs[r].log :
    \A s \in IncludedSources(runs[r], i) : \E j \in 1..(i - 1) : runs[r].log[j] = s

\* C2: at most one runRange call is between its start and its return.
C2_AtMostOneActiveRun ==
  Cardinality({r \in RunIds : InProgress(r)}) <= 1

\* C3: a stop request fires the abort signal of every run in progress.
C3_StopAbortsEveryRunInProgress ==
  [][StopAllActiveNodes => \A r \in RunIds : InProgress(r) => aborted'[r]]_vars

\* A step in which no run invokes a node.
NoInvocation == \A r \in RunIds : runs'[r].log = runs[r].log

\* No node's status becomes running and no live call counter goes up.
NothingStarted ==
  /\ \A n \in DOMAIN nodes' :
       nodes'[n].status = "running" => n \in DOMAIN nodes /\ nodes[n].status = "running"
  /\ \A n \in DOMAIN nodeCallCounts' :
       nodeCallCounts'[n] <= IF n \in DOMAIN nodeCallCounts THEN nodeCallCounts[n] ELSE 0

\* C4: once a run's abort signal has fired, the run invokes no node again
\* (an invocation being what sets a node running and counts a call), and
\* when it returns it returns success = false with canceled = true.
C4_NoInvocationAfterAbort ==
  [][/\ \A r \in RunIds : aborted[r] =>
          /\ runs'[r].log = runs[r].log
          /\ (runs[r].pc # "done" /\ runs'[r].pc = "done") =>
                (~runs'[r].result.success /\ runs'[r].result.canceled)
     /\ NoInvocation => NothingStarted]_vars

\* A run stopped while nodes of its range were still to be invoked.
C4_Witness ==
  \E r \in RunIds :
    /\ aborted[r] /\ runs[r].pc = "done"
    /\ runs[r].result.canceled /\ ~runs[r].result.success
    /\ runs[r].log # <<>>
    /\ runs[r].includedNodeIds \ Range(runs[r].log) # {}

\* The ids of the range a call asked for, by the order it started on.
RequestedIds(run) ==
  Range(SubSeq(run.orderSnapshot, run.startIndex + 1,
               Min(run.endIndexExclusive, Len(run.orderSnapshot))))

ValidRange(run) ==
  run.startIndex >= 0
    /\ run.startIndex <= Min(run.endIndexExclusive, Len(run.orderSnapshot))

ReturnsNodeFailure(r) ==
  /\ runs[r].pc # "done" /\ runs'[r].pc = "done"
  /\ runs'[r].result.failedNodeId # None

\* The nodes run r deals with in a step: the one whose call it was awaiting
\* and those it invokes in the step.
Touched(r) ==
  (IF runs[r].pc = "fetch" THEN {runs[r].current.id} ELSE {})
    \cup {runs'[r].log[i] : i \in (Len(runs[r].log) + 1)..Len(runs'[r].log)}

\* C8: the run stops at the first failing node. In the step in which an
\* invocation fails (error or cancellation) the run returns: the failing
\* node is the last one it invoked, the result carries that node's id, name
\* and a message, the nodes that succeeded in the step stay successful and
\* every other node keeps its status and output; a node is marked error only
\* in such a step, and a run that returned invokes nothing more.
C8_StopsAtFirstFailure ==
  [][/\ \A r \in RunIds : ReturnsNodeFailure(r) =>
          LET result == runs'[r].result
              failed == result.failedNodeId
              log == runs'[r].log
          IN /\ log # <<>> /\ log[Len(log)] = failed
             /\ ~result.success
             /\ result.errorMessage # ""
             /\ failed \in DOMAIN nodes' =>
                  /\ result.failedNodeName = nodes'[failed].name
                  /\ nodes'[failed].status = IF result.canceled THEN "idle" ELSE "error"
             /\ \A n \in (DOMAIN nodes' \cap Touched(r)) \ {failed} :
                  nodes'[n].status = "success"
             /\ \A n \in DOMAIN nodes' \ Touched(r) : nodes'[n] = nodes[n]
     /\ \A n \in DOMAIN nodes' \cap DOMAIN nodes :
          (nodes'[n].status = "error" /\ nodes[n].status # "error") =>
            \E r \in RunIds : ReturnsNodeFailure(r) /\ runs'[r].result.failedNodeId = n
     /\ \A r \in RunIds : runs[r].pc = "done" => runs'[r] = runs[r]]_vars

\* A run whose second node failed: the first keeps its success and output,
\* the third was never invoked.
C8_Witness ==
  \E r \in RunIds :
    /\ runs[r].pc = "done" /\ ~runs[r].result.success /\ ~runs[r].result.canceled
    /\ Len(runs[r].log) = 2
    /\ runs[r].result.failedNodeId = runs[r].log[2]
    /\ nodes[runs[r].log[2]].status = "error"
    /\ nodes[runs[r].log[1]].status = "success" /\ nodes[runs[r].log[1]].output = "data"
    /\ \E n \in runs[r].includedNodeIds \ Range(runs[r].log) : nodes[n].status = "idle"

\* How many times a run's log holds a node.
Count(log, n) == Cardinality({i \in DOMAIN log : log[i] = n})

\* The nodes of ids that reference a node of found, directly or through
\* other nodes of ids.
RECURSIVE ReachedFrom(_, _, _)
ReachedFrom(found, ids, nodeMap) ==
  LET more == {n \in ids \ found : RefSources(nodeMap[n]) \cap found # {}}
  IN IF more = {} THEN found ELSE ReachedFrom(found \cup more, ids, nodeMap)

\* The downstream dependents of a node within a run's range.
Dependents(run, source) ==
  ReachedFrom({source}, run.includedNodeIds, run.state) \ {source}

\* The repeating nodes of a run's range with a finite loop count whose
\* output a node of the range references.
RepeatingSources(run) ==
  {n \in run.includedNodeIds :
     /\ run.state[n].repeat.enabled
     /\ run.state[n].repeat.loopCount >= 1
     /\ Dependents(run, n) # {}}

\* A repeating node no other repeating node of the range reaches through
\* references: the main loop of runRange comes to it.
ReachedByMainLoop(run, source) ==
  \A q \in run.includedNodeIds \ {source} :
    run.state[q].repeat.enabled => source \notin Dependents(run, q)

\* The log holds the source count * loopCount times, each time followed at
\* once by each of its dependents, once.
InterleavedIterations(run, source) ==
  LET deps == Dependents(run, source)
      log == run.log
  IN /\ Count(log, source) = run.state[source].repeat.count * run.state[source].repeat.loopCount
     /\ \A i \in DOMAIN log : log[i] = source =>
          /\ i + Cardinality(deps) <= Len(log)
          /\ {log[j] : j \in (i + 1)..(i + Cardinality(deps))} = deps

SuccessfulRun(run) == run.pc = "done" /\ run.result.success /\ ~run.mutated

CanceledIn(r, pc) == aborted[r] /\ runs[r].pc = pc /\ runs'[r].pc # pc

\* The node a suspended run is at: the one whose call it awaits, or the
\* repeating node whose next iteration it waits for.
InFlight(run) ==
  IF run.pc = "fetch" THEN run.current.id ELSE run.executionOrder[run.idx]

NoNewError ==
  \A n \in DOMAIN nodes' \cap DOMAIN nodes :
    nodes'[n].status = "error" => nodes[n].status = "error"

AcceptedIn(r) ==
  /\ runs[r].pc = "idle" /\ runs'[r].pc # "idle"
  /\ runs'[r].result \notin {RunRejected(CircularMessage), RunRejected(InvalidStartMessage)}

\* The calculator's result for a run, with 0 for a node it gave no count.
CalculatorResult(run, n) ==
  LET plannedCallCounts ==
        calculatePlannedCallCounts(run.executionOrder, run.state, run.includedNodeIds)
  IN IF plannedCallCounts[n] = Unset THEN Num(0) ELSE plannedCallCounts[n]

\* C13: the step that starts an accepted run leaves every node of the order
\* with a live call counter equal to the invocations the run has made of it
\* since the reset to 0, and with a published call target equal to the
\* calculator's result for that run: the integer count, null when the count
\* is infinite, 0 for a node the calculator did not count.
C13_TargetsPublishCalculatorResult ==
  [][\A r \in RunIds : AcceptedIn(r) =>
       /\ nodeCallCounts' = [n \in Range(order) |-> Count(runs'[r].log, n)]
       /\ \A n \in Range(order) \cap DOMAIN nodes :
            callTargetByNodeId(order', nodes', nodeCallTargets', dependencyPlan')[n]
              = CalculatorResult(runs'[r], n)]_vars

\* The values of the bindings an invocation of a node resolves: the first
\* binding named "value" for a custom node, every binding otherwise.
ResolvedBindings(node) ==
  IF TransportOf(node.method) = "custom"
  THEN {node.params[i].value :
          i \in {j \in DOMAIN node.params :
                   node.params[j].name = "value" /\
                   \A k \in 1..(j - 1) : node.params[k].name # "value"}}
  ELSE {node.params[i].value : i \in DOMAIN node.params}

\* A ref whose source has no entry in the outputs map, or whose path leads
\* to no value in the source's output.
Unresolvable(value, outputsByNodeId) ==
  /\ value.type = "ref"
  /\ \/ outputsByNodeId[value.nodeId] = Undefined
     \/ value.path # "" /\ ~HasPath(outputsByNodeId[value.nodeId], value.path)

\* The step in which run r makes an invocation, and the node invoked last.
InvokesIn(r) == Len(runs'[r].log) > Len(runs[r].log)
LastInvoked(r) == runs'[r].log[Len(runs'[r].log)]

\* A step of run r that invokes node n again right after the answer to n's
\* pending call: only a 2xx answer lets the run go on, and it is stored in the
\* node and in the outputs map before the next invocation begins.
AnswersPendingCallOf(r, n) == runs[r].pc = "fetch" /\ runs[r].current.id = n

\* The stored output of a node when its invocation by run r begins.
OutputBefore(r, n) ==
  IF AnswersPendingCallOf(r, n) THEN "data" ELSE nodes[n].output

\* The entry of a node in the outputs map of run r when its invocation
\* begins: the map of a run that starts in the step is built from the outputs
\* in the store.
MapEntryBefore(r, n) ==
  IF runs[r].pc = "idle"
  THEN (IF n \in Range(order) /\ n \in DOMAIN nodes THEN nodes[n].output ELSE Undefined)
  ELSE IF AnswersPendingCallOf(r, n) THEN "data"
  ELSE runs[r].outputsByNodeId[n]

C17_ErrorResponseStoredButNotMapped ==
  [][\A r \in RunIds : FetchResponseError(r) =>
       LET n == runs[r].current.id IN
       /\ n \in DOMAIN nodes =>
            /\ nodes'[n].status = "error" /\ nodes'[n].error # Undefined
            /\ nodes'[n].output = "errorBody"
       /\ runs'[r].outputsByNodeId = runs[r].outputsByNodeId
       /\ runs'[r].pc = "done"
       /\ ~runs'[r].result.success /\ ~runs'[r].result.canceled
       /\ runs'[r].result.failedNodeId = n
       /\ runs'[r].log = runs[r].log]_vars

\* A run halted by an error response to the second call of a repeating
\* node: the store holds the error body, the outputs map still holds the
\* body of the first call.
C17_Witness ==
  \E r \in RunIds :
    /\ runs[r].pc = "done" /\ runs[r].result.errorMessage = "rpc error"
    /\ runs[r].result.failedNodeId \in DOMAIN nodes
    /\ nodes[runs[r].result.failedNodeId].status = "error"
    /\ nodes[runs[r].result.failedNodeId].output = "errorBody"
    /\ runs[r].outputsByNodeId[runs[r].result.failedNodeId] = "data"

\* =========================================== properties: the calculator
\* The nodes a call of the calculator counts: the included ids that name a node.
CalcIncluded == calc.includedNodeIds \cap DOMAIN nodes

\* The included nodes that reference a node directly or through included nodes.
CalcDependents(source) == ReachedFrom({source}, CalcIncluded, nodes) \ {source}

DownstreamOfRepeat(n) ==
  \E r \in CalcIncluded \ {n} : nodes[r].repeat.enabled /\ n \in CalcDependents(r)

\* max(1, floor(count)) * max(0, floor(loopCount))
TotalCalls(n) == RepeatCountOf(nodes[n]) * LoopCountOf(nodes[n])

AtLeast(plannedCallCount, k) ==
  \/ plannedCallCount = Infinite
  \/ plannedCallCount.kind = "number" /\ plannedCallCount.n >= k

\* C11 as stated: the calculator gives exactly 1 to an included node with
\* repeat disabled that is not downstream of a repeat-enabled node, and for
\* a repeat-enabled node with loopCount >= 1 its count * loopCount is part of
\* the node's count and of the count of every included node that
\* transitively references it.
C11_EveryRepeatAddsItsTotal ==
  PassEnded(calc) =>
    /\ \A n \in CalcIncluded :
         ~nodes[n].repeat.enabled /\ ~DownstreamOfRepeat(n) => calc.callCounts[n] = Num(1)
    /\ \A r \in CalcIncluded :
         nodes[r].repeat.enabled /\ nodes[r].repeat.loopCount >= 1 =>
           \A x \in {r} \cup CalcDependents(r) : AtLeast(calc.callCounts[x], TotalCalls(r))

\* The repeat-enabled included nodes that are downstream of no other
\* repeat-enabled included node and that n is, or depends on.
OutermostRepeatsOf(n) ==
  {r \in CalcIncluded :
     /\ nodes[r].repeat.enabled /\ ~DownstreamOfRepeat(r)
     /\ n \in {r} \cup CalcDependents(r)}

RECURSIVE SumTotalCalls(_)
SumTotalCalls(S) ==
  IF S = {} THEN 0
  ELSE LET r == CHOOSE x \in S : TRUE IN TotalCalls(r) + SumTotalCalls(S \ {r})

ExpectedCalls(n) ==
  IF OutermostRepeatsOf(n) = {} THEN 1 ELSE SumTotalCalls(OutermostRepeatsOf(n))

NoEndlessRepeat ==
  \A n \in CalcIncluded : nodes[n].repeat.enabled => nodes[n].repeat.loopCount >= 1

\* C11 amended: on an acyclic workflow in which no included repeat-enabled
\* node has loopCount 0, an included node with repeat disabled that depends
\* on no included repeat-enabled node gets exactly 1; a repeat-enabled
\* included node that depends on no other included repeat-enabled node adds
\* its count * loopCount to its own count and to the count of every included
\* node that references it through included nodes, and those are the only
\* contributions: a repeat-enabled node downstream of another adds nothing
\* of its own, and an id that is not included gets no count.
C11_OutermostRepeatsAddTheirTotal ==
  (PassEnded(calc) /\ ~HasDirectedCycle(Presented, nodes) /\ NoEndlessRepeat) =>
    \A n \in NodeIds \cup {Ghost} :
      calc.callCounts[n] = IF n \in CalcIncluded THEN Num(ExpectedCalls(n)) ELSE Unset

\* A finished pass over an acyclic workflow: a node repeating count *
\* loopCount times and its dependent both got that total, and an independent
\* node without repeat got 1.
C11_Witness ==
  /\ PassEnded(calc) /\ ~HasDirectedCycle(Presented, nodes) /\ NoEndlessRepeat
  /\ \E r \in CalcIncluded : \E x \in CalcDependents(r) : \E n \in CalcIncluded :
       /\ nodes[r].repeat.enabled /\ TotalCalls(r) = MaxCount * MaxCount
       /\ calc.callCounts[r] = Num(TotalCalls(r))
       /\ calc.callCounts[x] = Num(TotalCalls(r))
       /\ ~nodes[n].repeat.enabled /\ calc.callCounts[n] = Num(1)

\* The ids whose planned count is null in a Map.
NullCounts(callCounts) == {n \in DOMAIN callCounts : callCounts[n] = Infinite}

EndlessRepeats ==
  {r \in CalcIncluded : nodes[r].repeat.enabled /\ LoopCountOf(nodes[r]) = 0}

\* C12 as stated: when the pass has ended every included repeat-enabled
\* node with loopCount 0 and every downstream dependent of it has the count
\* null, and no step of the pass turns a null count into something else.
C12_EveryEndlessRepeatIsNull ==
  [][/\ NullCounts(calc.callCounts) \subseteq NullCounts(calc'.callCounts)
     /\ PassEnded(calc') =>
          \A r \in EndlessRepeats : \A x \in {r} \cup CalcDependents(r) :
            calc'.callCounts[x] = Infinite]_vars

\* The repeat-enabled included nodes with loopCount 0 that are downstream of
\* no other repeat-enabled included node.
OutermostEndlessRepeats == {r \in EndlessRepeats : ~DownstreamOfRepeat(r)}

\* The one of them that comes first in the execution order.
FirstEndlessRepeat ==
  CHOOSE r \in OutermostEndlessRepeats :
    \A q \in OutermostEndlessRepeats :
      IndexOf(calc.executionOrder, r) <= IndexOf(calc.executionOrder, q)

\* C12 amended: on an acyclic workflow the pass ends at the first node in
\* execution order that is included, repeat-enabled with loopCount 0 and not
\* downstream of another included repeat-enabled node: at the end exactly
\* that node and the included nodes that reference it directly or through
\* included nodes have the count null (no count is null when there is no
\* such node); and in any workflow a null count is only ever present in a
\* pass that has ended, so no later contribution follows it.
C12_FirstEndlessRepeatEndsPass ==
  /\ NullCounts(calc.callCounts) # {} => PassEnded(calc)
  /\ (PassEnded(calc) /\ ~HasDirectedCycle(Presented, nodes)) =>
       NullCounts(calc.callCounts) =
         IF OutermostEndlessRepeats = {} THEN {}
         ELSE {FirstEndlessRepeat} \cup CalcDependents(FirstEndlessRepeat)

\* A pass over an acyclic workflow ended by a node with loopCount 0: it and
\* its dependent are null, and a node counted before them kept its 1.
C12_Witness ==
  /\ PassEnded(calc) /\ calc.broke /\ ~HasDirectedCycle(Presented, nodes)
  /\ OutermostEndlessRepeats # {}
  /\ \E x \in CalcDependents(FirstEndlessRepeat) : \E n \in CalcIncluded :
       /\ calc.callCounts[FirstEndlessRepeat] = Infinite
       /\ calc.callCounts[x] = Infinite
       /\ calc.callCounts[n] = Num(1)

\* =============================================== properties: the store
\* C14: in every store state reached by addNode, removeNode, reorderNodes,
\* setParamValue, setNodeRepeat, clearOutputs and importWorkflow of a
\* document the schema accepts, the order has no duplicate id and the ids in
\* the order are exactly the keys of nodes.
C14_OrderListsEachNodeOnce ==
  /\ \A i, j \in DOMAIN order : i # j => order[i] # order[j]
  /\ Range(order) = DOMAIN nodes

\* A reference path from one node to another: the second references the
\* first directly or through other nodes.
RefPathExists(fromNodeId, toNodeId) ==
  toNodeId \in ReachedFrom({fromNodeId}, DOMAIN nodes, nodes) \ {fromNodeId}

\* The binding of a name in a node's params, as a set (empty when absent).
BindingsOf(node, paramName) ==
  {node.params[i].value : i \in {j \in DOMAIN node.params : node.params[j].name = paramName}}

\* C15: in every store state, setParamValue with a ref binding that names
\* source S on node T leaves the store unchanged when S = T or when a
\* reference path already exists from T to S; otherwise it stores the
\* binding under that name and changes nothing else; and a store built by
\* the editing operations alone holds no reference from a node to itself.
C15_SetParamValueRefusesCycles ==
  /\ \A T \in DOMAIN nodes : \A S \in AllIds : \A paramName \in StoreParamNames :
       LET next == setParamValue(nodes, T, paramName, RefValue(S)) IN
       IF S = T \/ RefPathExists(T, S) THEN next = nodes
       ELSE /\ DOMAIN next = DOMAIN nodes
            /\ \A n \in DOMAIN nodes \ {T} : next[n] = nodes[n]
            /\ BindingsOf(next[T], paramName) = {RefValue(S)}
            /\ \A other \in Range(ParamNames) \ {paramName} :
                 BindingsOf(next[T], other) = BindingsOf(nodes[T], other)
            /\ [next[T] EXCEPT !.params = <<>>] = [nodes[T] EXCEPT !.params = <<>>]
  /\ imports = 0 => \A T \in DOMAIN nodes : T \notin RefSources(nodes[T])

\* A store built without import in which setParamValue has stored a ref
\* from one node to another and now refuses the ref in the other direction.
C15_Witness ==
  /\ imports = 0
  /\ \E T, S \in DOMAIN nodes : \E paramName \in StoreParamNames :
       /\ T # S /\ RefValue(S) \in BindingsOf(nodes[T], paramName)
       /\ setParamValue(nodes, S, paramName, RefValue(T)) = nodes
       /\ setParamValue(nodes, T, paramName, RefValue(T)) = nodes

\* C18: from every store state, importWorkflow(exportWorkflow(state)),
\* with or without outputs, gives the same order and, for every node of
\* the store, a node with the same id, name, method, schemaMode, params,
\* rawParamsJson, repeat and position, with status idle and no error.
C18_ExportImportRoundTrip ==
  \A includeOutputs \in BOOLEAN :
    LET back == importWorkflow(exportWorkflow(order, nodes, selectedNodeId, includeOutputs))
    IN /\ back.order = order
       /\ \A n \in DOMAIN nodes :
            /\ n \in DOMAIN back.nodes
            /\ back.nodes[n].id = nodes[n].id
            /\ back.nodes[n].name = nodes[n].name
            /\ back.nodes[n].method = nodes[n].method
            /\ back.nodes[n].schemaMode = nodes[n].schemaMode
            /\ back.nodes[n].params = nodes[n].params
            /\ back.nodes[n].rawParamsJson = nodes[n].rawParamsJson
            /\ back.nodes[n].repeat = nodes[n].repeat
            /\ back.nodes[n].position = nodes[n].position
            /\ back.nodes[n].status = "idle"
            /\ back.nodes[n].error = Undefined

\* ============================================ properties: the run's range
\* The step in which runRange is called for run r.
CalledIn(r) == runs[r].pc = "idle" /\ runs'[r].pc # "idle"

BoundedEnd(run) == Min(run.endIndexExclusive, Len(run.orderSnapshot))
InvalidStart(run) == run.startIndex < 0 \/ run.startIndex > BoundedEnd(run)
Slice(run) == Range(SubSeq(run.orderSnapshot, run.startIndex + 1, BoundedEnd(run)))

\* The call returns the given rejection and executes no node.
RejectedIn(r, message) ==
  /\ runs'[r].pc = "done" /\ runs'[r].result = RunRejected(message)
  /\ runs'[r].log = <<>>
  /\ nodes' = nodes /\ nodeCallCounts' = nodeCallCounts /\ isExecuting' = isExecuting

\* The call passes both checks and its run is over the slice.
CoversSliceIn(r) ==
  /\ runs'[r].result \notin {RunRejected(InvalidStartMessage), RunRejected(CircularMessage)}
  /\ runs'[r].includedNodeIds = Slice(runs'[r])
  /\ Range(runs'[r].executionOrder) = Slice(runs'[r]) \cap DOMAIN nodes

\* C20 as stated: a call whose start index is negative or greater than the
\* bounded end is rejected with the invalid-start-index message and executes
\* no node; every other call is accepted and covers exactly the slice
\* [startIndex, bounded end) of the display order.
C20_EveryOtherRangeIsAccepted ==
  [][\A r \in RunIds : CalledIn(r) =>
       IF InvalidStart(runs'[r]) THEN RejectedIn(r, InvalidStartMessage)
       ELSE CoversSliceIn(r)]_vars

\* C20 amended: a call whose start index is negative or greater than the
\* bounded end is rejected with the invalid-start-index message and executes
\* no node; every other call goes on to the cycle check, is rejected there
\* with the circular-reference message when the plan has a cycle, and is
\* otherwise accepted and covers exactly the slice [startIndex, bounded end):
\* the run invokes no node outside the slice.
C20_ValidRangeGoesOnToCycleCheck ==
  [][\A r \in RunIds :
       /\ CalledIn(r) =>
            IF InvalidStart(runs'[r]) THEN RejectedIn(r, InvalidStartMessage)
            ELSE IF buildDependencyExecutionOrder(order, nodes).hasCycle
            THEN RejectedIn(r, CircularMessage)
            ELSE CoversSliceIn(r)
       /\ (runs'[r].pc # "idle" /\ ~InvalidStart(runs'[r])) =>
            Range(runs'[r].log) \subseteq Slice(runs'[r])]_vars

\* Runs that end: one rejected for a start index greater than the bounded
\* end, and one accepted with an end index beyond the order's length that
\* invoked the nodes of a proper slice of the order.
C20_Witness ==
  /\ \E r \in RunIds :
       /\ runs[r].pc = "done" /\ runs[r].startIndex > BoundedEnd(runs[r])
       /\ runs[r].result = RunRejected(InvalidStartMessage)
  /\ \E r \in RunIds :
       /\ runs[r].pc = "done" /\ runs[r].result = Success
       /\ runs[r].endIndexExclusive > Len(runs[r].orderSnapshot)
       /\ runs[r].startIndex > 0
       /\ Range(runs[r].log) = Slice(runs[r])

\* ============================================== properties: the chat panel
\* What the assistant answered, read without the route's code: the objects
\* of the answer, and for each whether it names a method, whether the
\* registry has it, and the required fields it leaves out.
ProposedObjects(raw) ==
  IF raw.shape \in {"null", "scalar"} THEN <<>>
  ELSE SelectSeq(raw.entries, LAMBDA entry : entry.isObject)
NamesMethod(rawProposal) == rawProposal.method.isString /\ rawProposal.method.text # ""
InRegistry(rawProposal) ==
  \E i \in DOMAIN methodRegistry : methodRegistry[i].method = rawProposal.method.text
RegistryEntry(rawProposal) ==
  methodRegistry[CHOOSE i \in DOMAIN methodRegistry :
                   methodRegistry[i].method = rawProposal.method.text]
MissingRequired(rawProposal) ==
  {RegistryEntry(rawProposal).params.fields[i].name :
     i \in {j \in DOMAIN RegistryEntry(rawProposal).params.fields :
              RegistryEntry(rawProposal).params.fields[j].required}} \ rawProposal.supplied
Passes(rawProposal) ==
  NamesMethod(rawProposal) /\ InRegistry(rawProposal) /\ MissingRequired(rawProposal) = {}
FirstFailing(rawProposals) ==
  CHOOSE i \in DOMAIN rawProposals :
    ~Passes(rawProposals[i]) /\ \A j \in DOMAIN rawProposals : j < i => Passes(rawProposals[j])

\* The step adds a node to the store or removes one.
StoreNodesChange == DOMAIN nodes' # DOMAIN nodes \/ order' # order

\* The handler adds nodes only for a response that allows it, and then one
\* node per proposal of that response, of the proposal's method.
ClientAddsOnlyAllowedPlans ==
  StoreNodesChange =>
    /\ chat.pc \in {"plan", "retry", "repair"}
    /\ chat'.data.canAddNodes /\ Len(chat'.data.proposals) > 0
    /\ Len(order') = Len(chat'.data.proposals)
    /\ \A i \in DOMAIN order' : nodes'[order'[i]].method = chat'.data.proposals[i].method

\* C21 as stated: canAddNodes is true only for a non-empty list whose
\* proposals all pass; when a proposal fails the response has no proposals,
\* canAddNodes = false and an availabilityError that names the unavailable
\* method or the missing required fields of a failing proposal; the client
\* adds nodes for no such response.
C21_ErrorNamesMethodOrFields ==
  [][/\ chat.pc = "plan" =>
          \A raw \in RawInputs :
            LET data == validateProposals(raw)
                rawProposals == ProposedObjects(raw)
            IN /\ data.canAddNodes =>
                    Len(rawProposals) > 0 /\ \A i \in DOMAIN rawProposals : Passes(rawProposals[i])
               /\ (\E i \in DOMAIN rawProposals : ~Passes(rawProposals[i])) =>
                    /\ data.proposals = <<>> /\ ~data.canAddNodes
                    /\ \E i \in DOMAIN rawProposals :
                         \/ /\ ~InRegistry(rawProposals[i])
                            /\ data.availabilityError =
                                 UnavailableError(rawProposals[i].method.text)
                         \/ /\ InRegistry(rawProposals[i])
                            /\ MissingRequired(rawProposals[i]) # {}
                            /\ data.availabilityError =
                                 MissingRequiredError(rawProposals[i].method.text,
                                                      MissingRequired(rawProposals[i]))
     /\ ClientAddsOnlyAllowedPlans]_vars

\* C21 amended: canAddNodes is true exactly for a non-empty list of objects
\* that all pass, and the response then holds one proposal per object, in
\* order; when an object fails the response has no proposals, canAddNodes =
\* false and the availabilityError of the first failing object: its position
\* when it has no non-blank string method, else its method when the registry
\* lacks it, else its method and its missing required fields; an answer with
\* no object gives canAddNodes = false and no availabilityError; the client
\* adds nodes only for a response with canAddNodes = true.
C21_ErrorIsOfFirstFailingProposal ==
  [][/\ chat.pc = "plan" =>
          \A raw \in RawInputs :
            LET data == validateProposals(raw)
                rawProposals == ProposedObjects(raw)
            IN IF Len(rawProposals) = 0 THEN data = Rejected(NoAvailabilityError)
               ELSE IF \A i \in DOMAIN rawProposals : Passes(rawProposals[i])
               THEN /\ data.canAddNodes /\ data.availabilityError = NoAvailabilityError
                    /\ Len(data.proposals) = Len(rawProposals)
                    /\ \A i \in DOMAIN rawProposals :
                         data.proposals[i].method = rawProposals[i].method.text
               ELSE LET i == FirstFailing(rawProposals) IN
                    data = Rejected(
                      IF ~NamesMethod(rawProposals[i]) THEN MissingMethodError(i)
                      ELSE IF ~InRegistry(rawProposals[i])
                      THEN UnavailableError(rawProposals[i].method.text)
                      ELSE MissingRequiredError(rawProposals[i].method.text,
                                                MissingRequired(rawProposals[i])))
     /\ ClientAddsOnlyAllowedPlans]_vars

\* The handler ended on a response rejected for a missing required field,
\* after a retry that was rejected too, and the store holds no node.
C21_Witness ==
  /\ chat.pc = "done" /\ chat.reply = "Could not add node(s)"
  /\ chat.data.availabilityError =
       MissingRequiredError("getTokenAccountsByOwner", {ParamNames[2]})
  /\ chat.data.proposals = <<>> /\ ~chat.data.canAddNodes
  /\ order = <<>> /\ DOMAIN nodes = {}

\* ==================================================== properties: paths
\* The values located at the places collectPaths visits, in the order it
\* visits them.
RECURSIVE LocatedValues(_)
RECURSIVE LocatedItems(_, _)
LocatedItems(value, index) ==
  IF index > Len(value.items) THEN <<>>
  ELSE <<value.items[index].value>>
       \o LocatedValues(value.items[index].value)
       \o LocatedItems(value, index + 1)
LocatedValues(value) ==
  IF value.t \in {"array", "object"} THEN LocatedItems(value, 1) ELSE <<>>

\* C22: for every path enumeratePaths returns for a value, getByPath on
\* that value and path returns the value located at the place the path was
\* enumerated for.
C22_GetByPathFindsEnumeratedPaths ==
  (lookup.active /\ lookup.i > 0) =>
    /\ Len(LocatedValues(lookup.obj)) = Len(lookup.paths)
    /\ lookup.result = LocatedValues(lookup.obj)[lookup.i]

\* ============================== properties: the store edited during a run
\* times copies of a sequence, one after the other.
RECURSIVE Repeated(_, _)
Repeated(sequence, times) ==
  IF times = 0 THEN <<>> ELSE sequence \o Repeated(sequence, times - 1)

\* The invocations the snapshot of a run fixes: each node of the execution
\* order once, a repeating node count * loopCount times with its downstream
\* dependents after each, and those dependents not again.
RECURSIVE SnapshotLog(_, _, _)
SnapshotLog(run, idx, skippedNodeIds) ==
  IF idx > Len(run.executionOrder) THEN <<>>
  ELSE LET nodeId == run.executionOrder[idx] IN
       IF nodeId \in skippedNodeIds \/ nodeId \notin DOMAIN run.state
       THEN SnapshotLog(run, idx + 1, skippedNodeIds)
       ELSE IF ~run.state[nodeId].repeat.enabled
       THEN <<nodeId>> \o SnapshotLog(run, idx + 1, skippedNodeIds)
       ELSE LET downstreamNodeIds ==
                  getReferencedDownstreamNodeIds(run.executionOrder, run.state, nodeId,
                                                 run.includedNodeIds)
            IN Repeated(<<nodeId>> \o downstreamNodeIds,
                        RepeatCountOf(run.state[nodeId]) * LoopCountOf(run.state[nodeId]))
               \o SnapshotLog(run, idx + 1, skippedNodeIds \cup Range(downstreamNodeIds))

\* C23: a run that returns success invoked exactly the nodes its snapshot
\* fixes, in that order and that many times, whatever was removed or changed
\* in the store while it was in progress.
C23_RunFollowsItsSnapshot ==
  \A r \in RunIds :
    (runs[r].pc = "done" /\ runs[r].result = Success) =>
      runs[r].log = SnapshotLog(runs[r], 1, {})

\* ====================================== properties: the call counters
\* What runRange publishes as the target of a node of the order snapshot.
PublishedTarget(run, n) ==
  LET planned == calculatePlannedCallCounts(run.executionOrder, run.state,
                                            run.includedNodeIds)[n]
  IN IF planned \in {Unset, Infinite} THEN Num(0) ELSE planned

\* The run whose counters are on display: no call of runRange came after it.
LatestRun(r) == started = r

\* C24: in the step in which a run returns success, the store not having
\* been replaced while it ran, the call counter of every node of its order
\* snapshot equals the target published for the node at the start of the
\* run, which is the count calculatePlannedCallCounts planned.
C24_CountersReachTargets ==
  [][\A r \in RunIds :
       (runs[r].pc # "done" /\ SuccessfulRun(runs'[r])) =>
         \A n \in Range(runs'[r].orderSnapshot) :
           /\ nodeCallTargets'[n] = PublishedTarget(runs'[r], n)
           /\ Num(nodeCallCounts'[n]) = nodeCallTargets'[n]]_vars

\* A successful run over two repeating nodes and the node that references
\* both, which was invoked after each of them.
C24_Witness ==
  \E r \in RunIds :
    /\ SuccessfulRun(runs[r]) /\ LatestRun(r)
    /\ \E a \in NodeIds, b \in NodeIds, n \in NodeIds :
         /\ a # b /\ {a, b, n} \subseteq Range(runs[r].executionOrder)
         /\ runs[r].state[a].repeat.enabled /\ runs[r].state[b].repeat.enabled
         /\ {a, b} \subseteq RefSources(runs[r].state[n])
         /\ nodeCallCounts[n] = 2 /\ nodeCallCounts[a] = 1 /\ nodeCallCounts[b] = 1

\* ======================================= properties: one node at a time
RunningNodes == {n \in DOMAIN nodes : nodes[n].status = "running"}

\* C25: at every moment at most one node has status running.
C25_AtMostOneNodeRunning == Cardinality(RunningNodes) <= 1

\* ================= properties: the dependents of a repeating node
\* The repeat-enabled nodes of a run's range that the main loop of runRange
\* comes to, and the nodes of the range that depend on one of them.
MainLoopRepeating(run) ==
  {n \in run.includedNodeIds \cap DOMAIN run.state :
     run.state[n].repeat.enabled /\ ReachedByMainLoop(run, n)}
RepeatDependents(run) ==
  UNION {Dependents(run, source) : source \in MainLoopRepeating(run)}

\* Position j of the log lies in the iteration that an invocation of a
\* repeating source at position i begins, and the node at j is a dependent
\* of that source invoked for the first time in the iteration.
InIterationOf(run, i, j) ==
  LET source == run.log[i] IN
  /\ i < j /\ j - i <= Cardinality(Dependents(run, source))
  /\ source \in MainLoopRepeating(run)
  /\ run.log[j] \in Dependents(run, source)
  /\ \A k \in (i + 1)..(j - 1) : run.log[k] \notin {source, run.log[j]}

\* C26: in a run during which the workflow was not replaced, a dependent of
\* a repeating node is invoked only within an iteration of such a node, once
\* in that iteration, whether or not it is repeat-enabled itself; and in a
\* run that returned success each iteration of a repeating node holds each
\* of its dependents once.
C26_DependentsOncePerIteration ==
  \A r \in RunIds : ~runs[r].mutated =>
    LET run == runs[r] IN
    /\ \A j \in DOMAIN run.log :
         run.log[j] \in RepeatDependents(run) =>
           \E i \in DOMAIN run.log : InIterationOf(run, i, j)
    /\ SuccessfulRun(run) =>
         \A i \in DOMAIN run.log :
           run.log[i] \in MainLoopRepeating(run) =>
             \A dependent \in Dependents(run, run.log[i]) :
               \E j \in DOMAIN run.log :
                 run.log[j] = dependent /\ InIterationOf(run, i, j)

\* A successful run in which a dependent of a repeating node that is set to
\* repeat twice itself was invoked once.
C26_Witness ==
  \E r \in RunIds : SuccessfulRun(runs[r]) /\
    \E dependent \in RepeatDependents(runs[r]) :
      /\ runs[r].state[dependent].repeat.enabled
      /\ RepeatCountOf(runs[r].state[dependent]) >= 2
      /\ Count(runs[r].log, dependent) = 1

\* ============================== properties: what the outputs map holds
\* C27: the outputs map of a run, as seeded at its start and after every
\* update, holds no response body of an invocation classified as an error.
C27_MapHoldsNoErrorBody ==
  \A r \in RunIds : \A n \in DOMAIN runs[r].outputsByNodeId :
    runs[r].outputsByNodeId[n] # "errorBody"

\* ===================================== properties: the interval wait
\* The result of a run stopped by the user.
ReturnsCanceled(run) ==
  run.pc = "done" /\ run.result.canceled /\ ~run.result.success

\* C28: a run whose signal fired while it waits between two iterations
\* makes no further invocation and, when its wait ends, returns canceled =
\* true without its timer having fired; and a wait begun in the same place
\* with the signal already fired is rejected at once, with the same result.
C28_AbortEndsTheWait ==
  /\ [][\A r \in RunIds :
          (runs[r].pc = "sleep" /\ aborted[r]) =>
            /\ runs'[r].log = runs[r].log
            /\ runs'[r].pc = "sleep" \/ ReturnsCanceled(runs'[r])]_vars
  /\ [](\A r \in RunIds :
          runs[r].pc = "sleep" =>
            LET begun == AwaitSleep([Machine(r) EXCEPT !.aborted = TRUE])
            IN ReturnsCanceled(begun.run) /\ begun.run.log = runs[r].log)

\* A run that returned canceled from the wait before the second iteration
\* of its repeating node: the node was invoked once.
C28_Witness ==
  \E r \in RunIds :
    /\ ReturnsCanceled(runs[r]) /\ aborted[r]
    /\ runs[r].repeatDelayMs > 0 /\ runs[r].globalIteration = 1
    /\ runs[r].log = <<runs[r].executionOrder[runs[r].idx]>>
    /\ runs[r].result.errorMessage = "Execution stopped by user."
    /\ runs[r].result.failedNodeId = None

\* The run is in the repeat loop of a node, or ended in it.
InRepeatLoop(run) == run.pc # "idle" /\ run.site \in {"repeat", "downstream"}

\* The loop made every iteration of every cycle.
LoopCompleted(run) == run.loopCount >= 1 /\ run.cycle = run.loopCount

\* The iterations of the loop begun so far, the one a wait precedes included.
IterationsBegun(run) ==
  IF LoopCompleted(run) THEN run.globalIteration ELSE run.globalIteration + 1

\* C29: the waits of a repeat loop are one fewer than the iterations begun
\* (one before each iteration but the first of the whole loop) when the
\* interval is positive and none when it is 0; a completed loop of count c
\* and loopCount l >= 1 with a positive interval made c * l - 1 waits.
C29_WaitBeforeEveryIterationButTheFirst ==
  \A r \in RunIds : InRepeatLoop(runs[r]) =>
    LET run == runs[r] IN
    /\ run.repeatDelayMs = 0 => run.waits = 0
    /\ run.repeatDelayMs > 0 => run.waits = IterationsBegun(run) - 1
    /\ (LoopCompleted(run) /\ run.repeatDelayMs > 0) =>
         run.waits = run.repeatCount * run.loopCount - 1

\* A completed loop of two cycles of two iterations with a delay: a wait
\* came before the second iteration of the first cycle and before both
\* iterations of the second cycle.
C29_Witness ==
  \E r \in RunIds :
    /\ SuccessfulRun(runs[r]) /\ InRepeatLoop(runs[r]) /\ LoopCompleted(runs[r])
    /\ runs[r].repeatDelayMs > 0
    /\ runs[r].repeatCount >= 2 /\ runs[r].loopCount >= 2
    /\ runs[r].waits = 3

\* ================== properties: the reference graph of an edited store
\* A call of runRange from a start index to the end of the order, made in
\* the current state, up to its first await or its return.
RunFrom(startIndex) ==
  runRangeBegin(Machine(1), startIndex, Len(order), order, nodes).run

C31_ExecutingWhileARunIsInProgress ==
  (\E r \in RunIds : InProgress(r)) => isExecuting

\* ================================ properties: what a returning run leaves
\* A step in which the call r of runRange returns.
ReturnsIn(r) == runs[r].pc # "done" /\ runs'[r].pc = "done"

\* C32: when runRange returns, whatever the outcome, no node of the workflow
\* is left in status running.
C32_NoNodeLeftRunning ==
  [][\A r \in RunIds : ReturnsIn(r) =>
       \A n \in DOMAIN nodes' : nodes'[n].status # "running"]_vars

\* ============================= properties: the plan of a cyclic workflow
\* The order list filtered to the ids that name a node.
RawDisplayOrder == SelectSeq(order, LAMBDA n : n \in DOMAIN nodes)

\* What the loop of the planner emitted: the nodes no cycle holds back.
EmittedByLoop == KahnResult(RawDisplayOrder, nodes)

\* C33: when buildDependencyExecutionOrder reports a cycle, its
\* orderedNodeIds are the raw display order (the order list filtered to
\* existing nodes), every presented node once, and not the shorter list the
\* loop emitted.
C33_CyclicPlanIsRawDisplayOrder ==
  (dependencyPlan.rendered /\ dependencyPlan.hasCycle) =>
    /\ dependencyPlan.orderedNodeIds = RawDisplayOrder
    /\ Len(dependencyPlan.orderedNodeIds) = Cardinality(Presented)
    /\ Len(EmittedByLoop) < Len(dependencyPlan.orderedNodeIds)

\* A cyclic plan over three nodes of which the loop emitted one, for a
\* display order that names no node at one place and does not list the
\* emitted node first.
C33_Witness ==
  /\ dependencyPlan.rendered /\ dependencyPlan.hasCycle
  /\ Cardinality(Presented) = MaxNodes
  /\ Ghost \in Range(order)
  /\ Len(EmittedByLoop) = 1
  /\ dependencyPlan.orderedNodeIds[1] # EmittedByLoop[1]

\* ================= properties: a workflow whose refs all point backwards
\* Every ref binding of a presented node names a node the display order
\* lists before it.
BackwardRefsOnly ==
  \A n \in Presented : \A s \in RefSources(nodes[n]) :
    s \in Presented /\ IndexOf(order, s) < IndexOf(order, n)

\* The slice of the display order a run was requested for.
SliceInDisplayOrder(run) ==
  SubSeq(run.orderSnapshot, run.startIndex + 1, BoundedEnd(run))

\* The nodes a run invoked, each at the place of its first invocation.
RECURSIVE FirstInvocations(_)
FirstInvocations(log) ==
  IF log = <<>> THEN <<>>
  ELSE LET front == SubSeq(log, 1, Len(log) - 1)
           last == log[Len(log)]
       IN IF last \in Range(front) THEN FirstInvocations(front)
          ELSE Append(FirstInvocations(front), last)

IsPrefix(a, b) == Len(a) <= Len(b) /\ SubSeq(b, 1, Len(a)) = a

\* A run came to its nodes in display order: so far, and all of them once
\* it has succeeded.
InvokedInDisplayOrder(run) ==
  /\ IsPrefix(FirstInvocations(run.log), SliceInDisplayOrder(run))
  /\ (run.pc = "done" /\ run.result.success) =>
       FirstInvocations(run.log) = SliceInDisplayOrder(run)

\* No repeating node of the run's range has a dependent in the range.
NoRepeatingSource(run) ==
  \A n \in run.includedNodeIds : run.state[n].repeat.enabled => Dependents(run, n) = {}

\* C34 as stated: when every ref binding names a node that appears earlier
\* in the display order, the planner returns the display order unchanged,
\* and a run invokes the included nodes in display order.
C34_RunFollowsDisplayOrder ==
  BackwardRefsOnly =>
    /\ dependencyPlan.orderedNodeIds = RawDisplayOrder
    /\ \A r \in RunIds : runs[r].pc # "idle" => InvokedInDisplayOrder(runs[r])

\* C34 amended: when every ref binding names a node that appears earlier in
\* the display order, the planner reports no cycle and returns the display
\* order (filtered to existing nodes) unchanged, the execution order of a
\* run is the requested slice in display order, and the run invokes the
\* included nodes in display order when no repeating node of the range has a
\* dependent in the range.
C34_PlanIsDisplayOrder ==
  BackwardRefsOnly =>
    /\ ~dependencyPlan.hasCycle
    /\ dependencyPlan.orderedNodeIds = RawDisplayOrder
    /\ \A r \in RunIds : runs[r].pc # "idle" =>
         /\ runs[r].executionOrder = SliceInDisplayOrder(runs[r])
         /\ NoRepeatingSource(runs[r]) => InvokedInDisplayOrder(runs[r])

\* A successful run over the whole of a display order that is not the order
\* of the ids, on a workflow with backward refs only, whose first node ran
\* MaxCount times before the others ran in display order.
C34_Witness ==
  /\ BackwardRefsOnly
  /\ order[1] = 1 /\ order # SetToSeq(NodeIds)
  /\ \E n \in NodeIds : RefSources(nodes[n]) # {}
  /\ \E r \in RunIds :
       /\ runs[r].pc = "done" /\ runs[r].result.success
       /\ NoRepeatingSource(runs[r])
       /\ runs[r].state[1].repeat.enabled
       /\ Len(runs[r].log) = MaxNodes + MaxCount - 1
       /\ FirstInvocations(runs[r].log) = order

\* ===================================== properties: a rejected run request
\* The call of runRange made in this step is one the early returns reject:
\* its start index is invalid, or the workflow has a cycle.
RejectedRequestIn(r) ==
  /\ CalledIn(r)
  /\ \/ InvalidStart(runs'[r])
     \/ buildDependencyExecutionOrder(order, nodes).hasCycle

\* C35: a run request that is rejected before starting invokes no node,
\* changes no node's status, output or error, resets neither the live call
\* counters nor the published call targets, and leaves isExecuting false.
C35_RejectedRequestChangesNothing ==
  [][\A r \in RunIds : RejectedRequestIn(r) =>
       /\ runs'[r].pc = "done" /\ ~runs'[r].result.success /\ runs'[r].log = <<>>
       /\ nodes' = nodes
       /\ nodeCallCounts' = nodeCallCounts
       /\ nodeCallTargets' = nodeCallTargets
       /\ isExecuting' = FALSE]_vars

\* A request rejected for its start index after a run that invoked every
\* node: the counters, the targets and the nodes still show that run.
C35_Witness ==
  \E r \in RunIds, q \in RunIds :
    /\ r < q
    /\ runs[r].pc = "done" /\ runs[r].result = Success /\ Len(runs[r].log) = MaxNodes
    /\ runs[q].pc = "done" /\ runs[q].result = RunRejected(InvalidStartMessage)
    /\ ~isExecuting
    /\ \A n \in Range(order) :
         /\ nodeCallCounts[n] = 1 /\ nodeCallTargets[n] = Num(1)
         /\ nodes[n].status = "success" /\ nodes[n].output = "data"

\* ============================= properties: the repeat settings of a node
\* C36: after any sequence of addNode, setNodeRepeat and importWorkflow,
\* each node's repeat has an integer count in [1, 1000], an integer interval
\* in [0, 86400000], an integer loopCount in [0, 100000] and a unit among
\* milliseconds, seconds and minutes; normalizing it again returns it
\* unchanged.
C36_RepeatStaysNormalized ==
  \A n \in DOMAIN nodes :
    /\ DOMAIN nodes[n].repeat = {"enabled", "count", "interval", "unit", "loopCount"}
    /\ nodes[n].repeat.enabled \in BOOLEAN
    /\ nodes[n].repeat.count \in 1..1000
    /\ nodes[n].repeat.interval \in 0..86400000
    /\ nodes[n].repeat.loopCount \in 0..100000
    /\ nodes[n].repeat.unit \in {"milliseconds", "seconds", "minutes"}
    /\ normalizeRepeat(AsNumbers(nodes[n].repeat)) = nodes[n].repeat

\* A store with a node whose three numbers were cut down to their upper
\* bounds, a node whose numbers were raised to their lower bounds, and a
\* node that has the defaults.
C36_Witness ==
  \E a \in DOMAIN nodes, b \in DOMAIN nodes, c \in DOMAIN nodes :
    /\ nodes[a].repeat.count = 1000 /\ nodes[a].repeat.interval = 86400000
    /\ nodes[a].repeat.loopCount = 100000 /\ nodes[a].repeat.unit = "minutes"
    /\ nodes[b].repeat.count = 1 /\ nodes[b].repeat.interval = 0
    /\ nodes[b].repeat.loopCount = 0 /\ nodes[b].repeat.unit = "seconds"
    /\ nodes[c].repeat = DEFAULT_NODE_REPEAT

====
